---------------------------- MODULE Spec2Model ----------------------------
(***************************************************************************)
(* Model of the SmartDoor core (Exmeaning/smartdoor_raspberry_pi):         *)
(*   - FaceRecognitionManager   (src/smartdoor/face_manager.py)            *)
(*   - K230Protocol             (src/smartdoor/protocol.py)                *)
(*   - K230Serial               (src/smartdoor/k230_serial.py)             *)
(*   - StepperMotor             (src/smartdoor/motor.py)                   *)
(*   - AsyncSerialManager       (src/utils/serial_manager.py)              *)
(* Each component has its own specifications; the variables of the other   *)
(* components stay at their initial values there.                          *)
(***************************************************************************)
EXTENDS Integers, Sequences, FiniteSets, TLC

VARIABLES
    window,         \* FaceRecognitionManager._window
    fm_lock,        \* FaceRecognitionManager._lock: "none" or the holding thread
    now,            \* time.time(), in seconds
    fm_pc,          \* position of the reader thread and of the timer thread
    fm_arg,         \* the recognition the reader thread is handling
    calls,          \* history: recognitions evaluated and callbacks invoked
    wid,            \* history: number of windows opened by _start_window
    cb_raises,      \* the on_success and on_reject callbacks raise when called
    fm_escaped,     \* history: an exception left a method of the manager
    k_serial,       \* K230Serial._serial: "none", "open" or "closed" (a port that was closed)
    k_running,      \* K230Serial._running (the reader thread runs while it is set)
    rx_buffer,      \* K230Serial._rx_buffer
    rx_pending,     \* text on the serial line that the reader has not read yet
    response_queue, \* K230Serial._response_queue
    k_callbacks,    \* K230Serial.on_face_detection / on_face_recognition are set
    k_log,          \* history: what _dispatch_message did with each parsed frame
    rx_frames,      \* history: the messages handed to parse_message
    rx_split,       \* history: a call returned with part of a frame in the buffer
    rx_pieces,      \* history: the pieces the serial line's text was made of
    k_thread,       \* K230Serial._read_thread: "none", "alive" or "dead"
    k_lock,         \* K230Serial._lock: "none" or the holding thread
    sc_pc,          \* position of each thread that calls send_command
    sc_call,        \* the number of the call each such thread is in
    sc_calls,       \* history: send_command calls that entered the critical section
    tx,             \* history: the command frames written to the serial link
    sc_done,        \* history: the send_command calls that returned
    dev_pending,    \* the commands the coprocessor has not answered (yet)
    dev_events,     \* history: event frames the coprocessor has sent
    program,        \* the program that runs: "smartdoor" (src/smartdoor) or "utils" (src/main.py)
    k_cb_raises,    \* K230Serial.on_face_detection / on_face_recognition raise when called
    event_handlers, \* AsyncSerialManager.event_handlers
    callbacks,      \* SerialManager.callbacks
    rx_queue,       \* SerialManager.rx_queue
    em_raising,     \* the handlers that raise when called
    em_last,        \* history: the last delivery, with the handlers it invoked
    em_escaped,     \* history: an exception left emit
    mt_lock,        \* StepperMotor._lock: "none" or the holding thread
    mt_pc,          \* position of each thread that calls rotate
    mt_rot,         \* the number of the rotation each such thread is in
    mt_i,           \* the loop index i of _send_pulses in each such thread
    dir_pin,        \* level of the direction pin
    pul_pin,        \* level of the pulse pin
    mt_wire,        \* history: the writes to the two pins, in order
    mt_hist,        \* history: the rotate calls, in order
    ws_should_run,  \* WebSocketClient._should_run
    ws_connected,   \* WebSocketClient._connected
    ws_sio,         \* WebSocketClient._sio: "none" or "client"
    ws_lock,        \* WebSocketClient._lock: "none" or the holding thread
    ws_rt,          \* WebSocketClient._reconnect_thread: "none" or the thread
    ws_pc,          \* position of the WS-Connect thread and of each WS-Reconnect thread
    ws_sched,       \* position of each thread that calls _schedule_reconnect
    rl_retry,       \* retry of each reconnect loop
    rl_delays,      \* history: the delays slept in the current run of each reconnect loop
    ws_runs,        \* history: number of reconnect loops started
    md_pc,          \* position of the thread that calls disconnect()
    ws_drops,       \* history: number of connections lost
    ws_late,        \* history: what happened while _should_run was False
    ct_main,        \* position of the main thread in start() and stop()
    ct_running,     \* SmartDoorController._running
    ct_timer_thread,\* SmartDoorController._timer_thread: "none", "alive" or "dead"
    door_status,    \* SmartDoorController._door_status
    close_timer,    \* SmartDoorController._close_timer: 0 (None) or the number of a timer
    ct_timers,      \* the threading.Timer objects created: "pending", "cancelled" or "fired"
    ct_on_command,  \* WebSocketClient.on_command is set
    open_angle,     \* Config.MOTOR_OPEN_ANGLE
    ct_workers,     \* history: the threads started for a rotation or a registration
    ct_writes,      \* history: the writes to _door_status, with the writing thread
    ct_long,        \* history: the threads that called rotate or a command of K230Serial
    ws_emitted,     \* history: number of events emitted to the server
    ct_escaped,     \* history: an exception left report_door_status or report_log
    ct_handled,     \* history: number of callbacks and commands handled
    ct_successes,   \* history: number of face successes handled
    ct_start,       \* history: why start() returned False
    ct_late,        \* history: what was done after stop() had returned
    pk_call,        \* the arguments of the call of _build_packet
    pk_packet,      \* the packet built: its length field, its frame, the rounds taken, its bytes
    pk_parsed,      \* what the length check of parse_data said of the packet
    pa_parser,      \* the parser called, or "none"
    pa_input,       \* the text given to the parser, and whether it is a str or bytes
    pa_result,      \* what the parser returned, or the exception that left it
    pa_built,       \* the fields given to the builder whose frame was parsed
    rd_pc,          \* position of the reader thread in _read_loop: "test", "read" or "exited"
    rd_late,        \* history: frames dispatched from chunks read after the flag was cleared
    dc_pc,          \* position of the thread that calls K230Serial.disconnect
    dc_mark,        \* history: the send_command calls entered when disconnect() returned
    od_pc,          \* position of the reader thread and of the socketio thread in _open_door
    dr_rot,         \* history: the rotation of the motor that each worker thread asked for
    rg_regs,        \* the registrations: user id, step of _register_face, calls made, result
    rg_no_id        \* history: REGISTER_FACE commands without user_id handled

fm_vars == <<window, fm_lock, now, fm_pc, fm_arg, calls, wid, cb_raises, fm_escaped>>

rx_vars == <<k_serial, k_running, rx_buffer, rx_pending, response_queue,
             k_callbacks, k_log, rx_frames, rx_split, rx_pieces, k_thread>>

sc_vars == <<k_lock, sc_pc, sc_call, sc_calls, tx, sc_done,
             dev_pending, dev_events>>

em_vars == <<program, k_cb_raises, event_handlers, callbacks, rx_queue,
             em_raising, em_last, em_escaped>>

mt_vars == <<mt_lock, mt_pc, mt_rot, mt_i, dir_pin, pul_pin, mt_wire, mt_hist>>

ws_vars == <<ws_should_run, ws_connected, ws_sio, ws_lock, ws_rt, ws_pc,
             ws_sched, rl_retry, rl_delays, ws_runs, md_pc, ws_drops,
             ws_late>>

ct_vars == <<ct_main, ct_running, ct_timer_thread, door_status, close_timer,
             ct_timers, ct_on_command, open_angle, ct_workers, ct_writes,
             ct_long, ws_emitted, ct_escaped, ct_handled, ct_successes,
             ct_start, ct_late>>

pk_vars == <<pk_call, pk_packet, pk_parsed>>

pa_vars == <<pa_parser, pa_input, pa_result, pa_built>>

sd_vars == <<rd_pc, rd_late, dc_pc, dc_mark>>

dr_vars == <<od_pc, dr_rot>>

rg_vars == <<rg_regs, rg_no_id>>

vars == <<fm_vars, rx_vars, sc_vars, em_vars, mt_vars, ws_vars, ct_vars, pk_vars, pa_vars, sd_vars, dr_vars, rg_vars>>

(* What a component leaves alone: the variables of the other components. *)
not_fm == <<rx_vars, sc_vars, em_vars, mt_vars, ws_vars, ct_vars, pk_vars, pa_vars, sd_vars, dr_vars, rg_vars>>

not_rx == <<fm_vars, sc_vars, em_vars, mt_vars, ws_vars, ct_vars, pk_vars, pa_vars, sd_vars, dr_vars, rg_vars>>

not_cmd == <<fm_vars, em_vars, mt_vars, ws_vars, ct_vars, pk_vars, pa_vars, sd_vars, dr_vars, rg_vars>>

not_em == <<fm_vars, rx_vars, sc_vars, mt_vars, ws_vars, ct_vars, pk_vars, pa_vars, sd_vars, dr_vars, rg_vars>>

not_mt == <<fm_vars, rx_vars, sc_vars, em_vars, ws_vars, ct_vars, pk_vars, pa_vars, sd_vars, dr_vars, rg_vars>>

not_ws == <<fm_vars, rx_vars, sc_vars, em_vars, mt_vars, ct_vars, pk_vars, pa_vars, sd_vars, dr_vars, rg_vars>>

not_ct == <<fm_vars, rx_vars, sc_vars, em_vars, mt_vars, ws_vars, pk_vars, pa_vars, sd_vars, dr_vars, rg_vars>>

not_pk == <<fm_vars, rx_vars, sc_vars, em_vars, mt_vars, ws_vars, ct_vars, pa_vars, sd_vars, dr_vars, rg_vars>>

not_pa == <<fm_vars, rx_vars, sc_vars, em_vars, mt_vars, ws_vars, ct_vars, pk_vars, sd_vars, dr_vars, rg_vars>>

not_sd == <<fm_vars, rx_vars, sc_vars, em_vars, mt_vars, ws_vars, ct_vars, pk_vars, pa_vars, dr_vars, rg_vars>>

not_dr == <<fm_vars, rx_vars, sc_vars, em_vars, mt_vars, ws_vars, ct_vars, pk_vars, pa_vars, sd_vars, rg_vars>>

not_rg == <<fm_vars, rx_vars, sc_vars, em_vars, mt_vars, ws_vars, ct_vars, pk_vars, pa_vars, sd_vars, dr_vars>>

-----------------------------------------------------------------------------
(* Bounds *)
MaxTime == 11       \* the clock stops here
MaxRecs == 3        \* recognition events delivered in one behaviour
MaxPieces == 2      \* pieces of text put on the serial line in one behaviour
MaxCalls == 2       \* send_command calls made in one behaviour
MaxEvents == 1      \* event frames the coprocessor sends in one behaviour
MaxHandlers == 2    \* handlers registered for one event, callbacks registered
MaxLines == 1       \* lines received by SerialManager in one behaviour
MaxRotations == 2   \* rotate calls made by concurrent threads in one behaviour
MaxRamps == 1       \* rotate calls made one after the other in one behaviour
MaxSleeps == 7      \* sleeps of one run of the reconnect loop
MaxDrops == 1       \* connections lost in one behaviour
MaxHandled == 1     \* callbacks and remote commands handled in one behaviour
MaxArgLen == 100    \* characters of the first argument of a legacy packet
MaxFields == 8      \* fields of a text given to the parsers
MaxOpens == 2       \* face successes and remote commands handled by the running controller

(* Program constants *)
FACE_WINDOW_SECONDS == 5
FACE_SCORE_THRESHOLD == 80
MOTOR_PULSES_PER_REV == 800
MOTOR_OPEN_ANGLE == 90 * 64     \* 90.0 degrees
MOTOR_MIN_DELAY == 500          \* 0.0005 s
MOTOR_MAX_DELAY == 2000         \* 0.002 s

-----------------------------------------------------------------------------
(* FaceRecognition values (protocol.py); the box x, y, w, h is not read by  *)
(* the state machine and is left out.                                       *)
Recognitions ==
    { [name |-> "unknown", score |-> 0],
      [name |-> "unknown", score |-> 90],
      [name |-> "alice",   score |-> 79],
      [name |-> "alice",   score |-> 80],
      [name |-> "bob",     score |-> 95] }

is_known(r) == r.name # "unknown" /\ r.score > 0

is_success(r) == is_known(r) /\ r.score >= FACE_SCORE_THRESHOLD

RecognitionWindow ==
    [ start_time        |-> 0,
      active            |-> FALSE,
      success_reported  |-> FALSE,
      failure_count     |-> 0,
      last_success_user |-> "",
      last_recognition  |-> << >> ]

_start_window(t) == [RecognitionWindow EXCEPT !.start_time = t, !.active = TRUE]

_is_window_expired(w, t) ==
    IF ~w.active THEN TRUE ELSE (t - w.start_time) >= FACE_WINDOW_SECONDS

(* A callback invocation, as an entry of the history. *)
Call(kind, by, n, user, rec) ==
    [kind |-> kind, wid |-> wid, by |-> by, n |-> n, user |-> user, rec |-> rec]

_report_success(w, by, user) == Call("success", by, 0, user, w.last_recognition)

_report_reject(w, by) == Call("reject", by, w.failure_count, "", w.last_recognition)


(* The try/except of _report_success and _report_reject, lines 139-142 and *)
(* 147-153: whether what the callback raised leaves the method.             *)
escapes_uncaught(raised) == raised

escapes(raised) == FALSE

-----------------------------------------------------------------------------
(* with self._lock: a thread enters only when no thread holds the mutex. *)
fm_acquire_unguarded(t) == fm_lock' = fm_lock

fm_acquire(t) == fm_lock = "none" /\ fm_lock' = t

fm_release == fm_lock' = "none"

(* The reject condition of lines 98-99 and 132. *)
should_reject_ignoring_success(w) == w.failure_count > 0

should_reject(w) == ~w.success_reported /\ w.failure_count > 0

(* Lines 105-122: the recognition is stored and judged against the window. *)
(* The result is the new window and the callbacks invoked.                  *)
evaluate_unguarded(w, rec, by) ==
    LET w1 == [w EXCEPT !.last_recognition = <<rec>>] IN
    IF is_success(rec)
    THEN LET w2 == [w1 EXCEPT !.success_reported = TRUE,
                              !.last_success_user = rec.name]
         IN [w |-> w2, out |-> <<_report_success(w2, by, rec.name)>>]
    ELSE [w |-> [w1 EXCEPT !.failure_count = @ + 1], out |-> << >>]

evaluate(w, rec, by) ==
    LET w1 == [w EXCEPT !.last_recognition = <<rec>>] IN
    IF is_success(rec)
    THEN IF ~w1.success_reported
         THEN LET w2 == [w1 EXCEPT !.success_reported = TRUE,
                                   !.last_success_user = rec.name]
              IN [w |-> w2, out |-> <<_report_success(w2, by, rec.name)>>]
         ELSE [w |-> w1, out |-> << >>]
    ELSE [w |-> [w1 EXCEPT !.failure_count = @ + 1], out |-> << >>]

(* Lines 95-100 and 131-133: the callbacks fired for an expired window. *)
expired_reports(w, by) ==
    IF should_reject(w) THEN <<_report_reject(w, by)>> ELSE << >>

(* Line 134: _reset_window. *)
keep_window(w) == w

deactivate_window(w) == [w EXCEPT !.active = FALSE]

_reset_window(w) == RecognitionWindow

(* The reader thread has no recognition in hand. *)
NoArg == [name |-> "", score |-> 0]

(* The recognition events delivered so far (evaluated or being handled). *)
Delivered ==
    Cardinality({i \in 1..Len(calls) : calls[i].kind = "rec"})
    + (IF fm_pc.reader \in {"rr_expiry", "rr_start", "rr_eval"} THEN 1 ELSE 0)

Event(rec) ==
    [kind |-> "rec", wid |-> wid, by |-> "reader",
     n |-> IF is_success(rec) THEN 1 ELSE 0, user |-> rec.name, rec |-> <<rec>>]

-----------------------------------------------------------------------------
(* on_face_detected, lines 76-84 *)
FD_Enter ==
    /\ fm_pc.reader = "idle"
    /\ fm_acquire("reader")
    /\ fm_pc' = [fm_pc EXCEPT !.reader = "fd"]
    /\ UNCHANGED <<window, now, fm_arg, calls, wid, cb_raises, fm_escaped>>

FD_Body_reopening_expired ==
    /\ fm_pc.reader = "fd"
    /\ IF _is_window_expired(window, now)
       THEN window' = _start_window(now) /\ wid' = wid + 1
       ELSE UNCHANGED <<window, wid>>
    /\ fm_release
    /\ fm_pc' = [fm_pc EXCEPT !.reader = "idle"]
    /\ UNCHANGED <<now, fm_arg, calls, cb_raises, fm_escaped>>

FD_Body ==
    /\ fm_pc.reader = "fd"
    /\ IF ~window.active
       THEN window' = _start_window(now) /\ wid' = wid + 1
       ELSE UNCHANGED <<window, wid>>
    /\ fm_release
    /\ fm_pc' = [fm_pc EXCEPT !.reader = "idle"]
    /\ UNCHANGED <<now, fm_arg, calls, cb_raises, fm_escaped>>

(* on_recognition_result, lines 86-122 *)
RR_Enter(rec) ==
    /\ fm_pc.reader = "idle"
    /\ Delivered < MaxRecs
    /\ fm_acquire("reader")
    /\ fm_arg' = rec
    /\ fm_pc' = [fm_pc EXCEPT !.reader = "rr_expiry"]
    /\ UNCHANGED <<window, now, calls, wid, cb_raises, fm_escaped>>

RR_Expiry ==
    /\ fm_pc.reader = "rr_expiry"
    /\ IF _is_window_expired(window, now)
       THEN LET out == IF window.active
                       THEN expired_reports(window, "reader")
                       ELSE << >>
            IN  /\ calls' = calls \o out
                /\ IF out # << >> /\ escapes(cb_raises)
                   THEN /\ fm_release
                        /\ fm_pc' = [fm_pc EXCEPT !.reader = "idle"]
                        /\ fm_arg' = NoArg
                        /\ fm_escaped' = TRUE
                   ELSE /\ fm_pc' = [fm_pc EXCEPT !.reader = "rr_start"]
                        /\ UNCHANGED <<fm_lock, fm_arg, fm_escaped>>
       ELSE /\ fm_pc' = [fm_pc EXCEPT !.reader = "rr_eval"]
            /\ UNCHANGED <<calls, fm_lock, fm_arg, fm_escaped>>
    /\ UNCHANGED <<window, now, wid, cb_raises>>

RR_Start_keeping ==
    /\ fm_pc.reader = "rr_start"
    /\ fm_pc' = [fm_pc EXCEPT !.reader = "rr_eval"]
    /\ IF window.active
       THEN UNCHANGED <<window, wid>>
       ELSE window' = _start_window(now) /\ wid' = wid + 1
    /\ UNCHANGED <<fm_lock, now, fm_arg, calls, cb_raises, fm_escaped>>

RR_Start ==
    /\ fm_pc.reader = "rr_start"
    /\ window' = _start_window(now)
    /\ wid' = wid + 1
    /\ fm_pc' = [fm_pc EXCEPT !.reader = "rr_eval"]
    /\ UNCHANGED <<fm_lock, now, fm_arg, calls, cb_raises, fm_escaped>>

RR_Eval ==
    /\ fm_pc.reader = "rr_eval"
    /\ LET r == evaluate(window, fm_arg, "reader") IN
         /\ window' = r.w
         /\ calls' = (calls \o <<Event(fm_arg)>>) \o r.out
         /\ fm_escaped' = (fm_escaped \/ (r.out # << >> /\ escapes(cb_raises)))
    /\ fm_release
    /\ fm_arg' = NoArg
    /\ fm_pc' = [fm_pc EXCEPT !.reader = "idle"]
    /\ UNCHANGED <<now, wid, cb_raises>>

(* check_timeout, lines 124-134 *)
CT_Enter ==
    /\ fm_pc.timer = "idle"
    /\ fm_acquire("timer")
    /\ fm_pc' = [fm_pc EXCEPT !.timer = "ct_check"]
    /\ UNCHANGED <<window, now, fm_arg, calls, wid, cb_raises, fm_escaped>>

CT_Check_skipping_silent ==
    /\ fm_pc.timer = "ct_check"
    /\ IF window.active /\ _is_window_expired(window, now) /\ should_reject(window)
       THEN /\ calls' = calls \o expired_reports(window, "timer")
            /\ fm_pc' = [fm_pc EXCEPT !.timer = "ct_reset"]
            /\ UNCHANGED fm_lock
       ELSE /\ fm_release
            /\ fm_pc' = [fm_pc EXCEPT !.timer = "idle"]
            /\ UNCHANGED calls
    /\ UNCHANGED <<window, now, fm_arg, wid, cb_raises, fm_escaped>>

CT_Check ==
    /\ fm_pc.timer = "ct_check"
    /\ IF window.active /\ _is_window_expired(window, now)
       THEN LET out == expired_reports(window, "timer") IN
            /\ calls' = calls \o out
            /\ IF out # << >> /\ escapes(cb_raises)
               THEN /\ fm_release
                    /\ fm_pc' = [fm_pc EXCEPT !.timer = "idle"]
                    /\ fm_escaped' = TRUE
               ELSE /\ fm_pc' = [fm_pc EXCEPT !.timer = "ct_reset"]
                    /\ UNCHANGED <<fm_lock, fm_escaped>>
       ELSE /\ fm_release
            /\ fm_pc' = [fm_pc EXCEPT !.timer = "idle"]
            /\ UNCHANGED <<calls, fm_escaped>>
    /\ UNCHANGED <<window, now, fm_arg, wid, cb_raises>>

CT_Reset ==
    /\ fm_pc.timer = "ct_reset"
    /\ window' = _reset_window(window)
    /\ fm_release
    /\ fm_pc' = [fm_pc EXCEPT !.timer = "idle"]
    /\ UNCHANGED <<now, fm_arg, calls, wid, cb_raises, fm_escaped>>

(* time.time() advances *)
Tick ==
    /\ now < MaxTime
    /\ now' = now + 1
    /\ UNCHANGED <<window, fm_lock, fm_pc, fm_arg, calls, wid, cb_raises, fm_escaped>>

FaceInit ==
    /\ window = RecognitionWindow
    /\ fm_lock = "none"
    /\ now = 0
    /\ fm_pc = [reader |-> "idle", timer |-> "idle"]
    /\ fm_arg = NoArg
    /\ calls = << >>
    /\ wid = 0
    /\ cb_raises = FALSE
    /\ fm_escaped = FALSE


-----------------------------------------------------------------------------
(* Text is a sequence of one-character strings.  The alphabet of the model  *)
(* is the characters of Pieces below; of the whitespace that str.strip and  *)
(* int accept it has the space, and it has no '_'.                          *)
Digits == {"0", "1", "2", "3", "4", "5", "6", "7", "8", "9"}

DigitVal(c) ==
    CASE c = "0" -> 0 [] c = "1" -> 1 [] c = "2" -> 2 [] c = "3" -> 3
      [] c = "4" -> 4 [] c = "5" -> 5 [] c = "6" -> 6 [] c = "7" -> 7
      [] c = "8" -> 8 [] c = "9" -> 9

(* str.find: the first index (from 1) of c in s, 0 when absent *)
RECURSIVE FindFrom(_, _, _)
FindFrom(s, c, i) ==
    IF i > Len(s) THEN 0
    ELSE IF s[i] = c THEN i ELSE FindFrom(s, c, i + 1)

Find(s, c) == FindFrom(s, c, 1)

(* The whitespace of the alphabet. *)
Whitespace == {" ", "\n"}

(* str.strip *)
RECURSIVE LStrip(_)
LStrip(s) == IF s # << >> /\ Head(s) \in Whitespace THEN LStrip(Tail(s)) ELSE s

RECURSIVE RStrip(_)
RStrip(s) ==
    IF s # << >> /\ s[Len(s)] \in Whitespace
    THEN RStrip(SubSeq(s, 1, Len(s) - 1)) ELSE s

Strip(s) == RStrip(LStrip(s))

(* str.split(',') *)
RECURSIVE Split(_, _)
Split(s, sep) ==
    LET i == Find(s, sep) IN
    IF i = 0 THEN <<s>>
    ELSE <<SubSeq(s, 1, i - 1)>> \o Split(SubSeq(s, i + 1, Len(s)), sep)

(* str.isdigit *)
IsDigit(s) == s # << >> /\ \A i \in 1..Len(s) : s[i] \in Digits

(* int(s) succeeds: optional surrounding whitespace, optional sign, digits *)
IntBody(s) ==
    LET t == Strip(s) IN
    IF t # << >> /\ Head(t) \in {"+", "-"} THEN Tail(t) ELSE t

IsInt(s) == IsDigit(IntBody(s))

RECURSIVE NatVal(_)
NatVal(s) ==
    IF s = << >> THEN 0
    ELSE 10 * NatVal(SubSeq(s, 1, Len(s) - 1)) + DigitVal(s[Len(s)])

IntVal(s) ==
    LET t == Strip(s) IN
    IF Head(t) = "-" THEN 0 - NatVal(IntBody(s)) ELSE NatVal(IntBody(s))

(* str.upper, on the letters of the alphabet *)
UpperChar(c) ==
    CASE c = "o" -> "O" [] c = "k" -> "K" [] c = "e" -> "E" [] c = "r" -> "R"
      [] c = "p" -> "P" [] c = "n" -> "N" [] c = "g" -> "G" [] OTHER -> c

Upper(s) == [i \in 1..Len(s) |-> UpperChar(s[i])]

(* K230ResponseStatus(status_str), ValueError -> ERR (lines 158-161).  The *)
(* mutant takes an unknown status for OK.                                   *)
StatusOf_unknown_ok(s) ==
    IF s = <<"P", "O", "N", "G">> THEN "PONG"
    ELSE IF s = <<"E", "R", "R">> THEN "ERR"
    ELSE "OK"

StatusOf(s) ==
    IF s = <<"O", "K">> THEN "OK"
    ELSE IF s = <<"P", "O", "N", "G">> THEN "PONG"
    ELSE "ERR"

Malformed == [type |-> "malformed"]

(* An exception that leaves the parser. *)
Raised(exc) == [type |-> "raised", exc |-> exc]

(* The exceptions of the parsers and the classes that catch them:           *)
(* UnicodeDecodeError is a ValueError, everything is an Exception.          *)
Subclasses(class) ==
    CASE class = "ValueError" -> {"ValueError", "UnicodeDecodeError"}
      [] class = "IndexError" -> {"IndexError"}
      [] class = "Exception"  -> {"ValueError", "UnicodeDecodeError", "IndexError"}

(* except <classes>: return None (lines 173-174 and 215-218; lines 91-93 of *)
(* utils/protocol.py); an exception of another class leaves the parser.     *)
(* The mutant catches nothing.                                              *)
on_exception_uncaught(exc, classes) == Raised(exc)

on_exception(exc, classes) ==
    IF \E c \in classes : exc \in Subclasses(c) THEN Malformed ELSE Raised(exc)

(* _parse_response, lines 143-174; parts[1] is Python's parts[0].  int of   *)
(* line 154 raises ValueError inside the try of line 153.                   *)
_parse_response(parts) ==
    IF Len(parts) < 3 THEN Malformed
    ELSE IF ~IsInt(parts[2]) THEN on_exception("ValueError", {"ValueError"})
    ELSE [type     |-> "response",
          length   |-> IntVal(parts[2]),
          status   |-> StatusOf(Upper(parts[3])),
          data     |-> SubSeq(parts, 4, Len(parts))]

(* Lines 83-84.  The mutant of the first has no leading zero. *)
DATA_TYPE_FACE_DETECTION_unpadded == <<"6">>

DATA_TYPE_FACE_DETECTION == <<"0", "6">>

DATA_TYPE_FACE_RECOGNITION == <<"0", "8">>

(* _parse_data_packet, lines 176-218: the ints of lines 194-197 and         *)
(* 207-212 raise ValueError inside the try of line 184; too short a packet  *)
(* falls through to the return None of line 218.                            *)
_parse_data_packet(parts) ==
    LET data_type == IF Len(parts) > 1 THEN parts[2] ELSE << >> IN
    IF data_type = DATA_TYPE_FACE_DETECTION
    THEN IF Len(parts) < 6 THEN Malformed
         ELSE IF \A i \in 3..6 : IsInt(parts[i])
         THEN [type |-> "face_detection",
               x |-> IntVal(parts[3]), y |-> IntVal(parts[4]),
               w |-> IntVal(parts[5]), h |-> IntVal(parts[6])]
         ELSE on_exception("ValueError", {"ValueError", "IndexError"})
    ELSE IF data_type = DATA_TYPE_FACE_RECOGNITION
    THEN IF Len(parts) < 8 THEN Malformed
         ELSE IF (\A i \in 3..6 : IsInt(parts[i])) /\ IsInt(parts[8])
         THEN [type |-> "face_recognition",
               x |-> IntVal(parts[3]), y |-> IntVal(parts[4]),
               w |-> IntVal(parts[5]), h |-> IntVal(parts[6]),
               name |-> parts[7], score |-> IntVal(parts[8])]
         ELSE on_exception("ValueError", {"ValueError", "IndexError"})
    ELSE Malformed

(* parse_message, lines 104-141 *)
parse_message(text) ==
    LET data == Strip(text) IN
    IF data = << >> \/ Head(data) # "$" \/ data[Len(data)] # "#" THEN Malformed
    ELSE LET content == SubSeq(data, 2, Len(data) - 1)
             parts == Split(content, ",")
         IN IF Len(parts) < 2 THEN Malformed
            ELSE IF parts[1] = <<"R", "S", "P">> THEN _parse_response(parts)
            ELSE IF IsDigit(parts[1]) THEN _parse_data_packet(parts)
            ELSE Malformed

(* ','.join(str(a) for a in args) *)
RECURSIVE Join(_)
Join(args) ==
    IF args = << >> THEN << >>
    ELSE IF Len(args) = 1 THEN args[1]
    ELSE (args[1] \o <<",">>) \o Join(Tail(args))

(* build_command, lines 86-102 *)
build_command(cmd, args) ==
    IF args # << >>
    THEN ((<<"$", "C", "M", "D", ",">> \o cmd) \o <<",">> \o Join(args)) \o <<"#">>
    ELSE (<<"$", "C", "M", "D", ",">> \o cmd) \o <<"#">>

-----------------------------------------------------------------------------
(* K230Serial: the receive path *)

(* The while loop of _process_data, lines 128-161, on the buffer buf; acc  *)
(* collects the messages handed to parse_message with their results.       *)
RECURSIVE scan_keeping_junk(_, _)
scan_keeping_junk(buf, acc) ==
    LET start == Find(buf, "$") IN
    IF start = 0 THEN [buf |-> buf, msgs |-> acc]
    ELSE LET b1 == SubSeq(buf, start, Len(buf))
             end == Find(b1, "#")
         IN IF end = 0 THEN [buf |-> buf, msgs |-> acc]
            ELSE LET message == SubSeq(b1, 1, end)
                     rest == SubSeq(b1, end + 1, Len(b1))
                     parsed == parse_message(message)
                     item == [message |-> message, parsed |-> parsed]
                 IN scan_keeping_junk(rest, Append(acc, item))

RECURSIVE scan_dropping_rest(_, _)
scan_dropping_rest(buf, acc) ==
    LET start == Find(buf, "$") IN
    IF start = 0 THEN [buf |-> << >>, msgs |-> acc]
    ELSE LET b1 == SubSeq(buf, start, Len(buf))
             end == Find(b1, "#")
         IN IF end = 0 THEN [buf |-> b1, msgs |-> acc]
            ELSE LET message == SubSeq(b1, 1, end)
                     rest == SubSeq(b1, end + 1, Len(b1))
                     parsed == parse_message(message)
                     item == [message |-> message, parsed |-> parsed]
                 IN IF parsed.type = "malformed"
                    THEN [buf |-> << >>, msgs |-> Append(acc, item)]
                    ELSE scan_dropping_rest(rest, Append(acc, item))

RECURSIVE scan(_, _)
scan(buf, acc) ==
    LET start == Find(buf, "$") IN
    IF start = 0 THEN [buf |-> << >>, msgs |-> acc]
    ELSE LET b1 == SubSeq(buf, start, Len(buf))
             end == Find(b1, "#")
         IN IF end = 0 THEN [buf |-> b1, msgs |-> acc]
            ELSE LET message == SubSeq(b1, 1, end)
                     rest == SubSeq(b1, end + 1, Len(b1))
                     parsed == parse_message(message)
                     item == [message |-> message, parsed |-> parsed]
                 IN scan(rest, Append(acc, item))

(* _process_data, lines 121-161: the chunk is appended to the buffer *)
_process_data_replacing(buffer, data) == scan(data, << >>)

_process_data(buffer, data) == scan(buffer \o data, << >>)

(* _dispatch_message, lines 163-188: the queue after the call and what was *)
(* done with the parsed frame.                                              *)
Dispatched(parsed, target) ==
    [parsed |-> parsed, target |-> target,
     waiting |-> \E t \in DOMAIN sc_pc : sc_pc[t] = "wait",
     raised |-> (k_cb_raises /\ target \in {"on_face_detection", "on_face_recognition"})]

_dispatch_message_queueing_all(parsed, queue, cbs) ==
    [queue |-> Append(queue, parsed), entry |-> Dispatched(parsed, "queue")]

_dispatch_message(parsed, queue, cbs) ==
    IF parsed.type = "response"
    THEN [queue |-> Append(queue, parsed), entry |-> Dispatched(parsed, "queue")]
    ELSE IF parsed.type = "face_detection"
    THEN [queue |-> queue,
          entry |-> Dispatched(parsed,
                       IF cbs.det THEN "on_face_detection" ELSE "none")]
    ELSE IF parsed.type = "face_recognition"
    THEN [queue |-> queue,
          entry |-> Dispatched(parsed,
                       IF cbs.rec THEN "on_face_recognition" ELSE "none")]
    ELSE [queue |-> queue, entry |-> Dispatched(parsed, "none")]

(* The try/except around the callbacks, lines 176-179 and 185-188: whether *)
(* what a callback raised leaves _dispatch_message.                         *)
dispatch_escapes(raised) == FALSE

(* Lines 156-161 over the messages of one call: a parsed frame is           *)
(* dispatched, a malformed one only logged.  An exception that left          *)
(* _dispatch_message would end the call with the later messages (rest)       *)
(* still in the buffer.                                                      *)
RECURSIVE Deliver(_, _, _, _)
Deliver(msgs, queue, cbs, log) ==
    IF msgs = << >> THEN [queue |-> queue, log |-> log, rest |-> << >>]
    ELSE LET parsed == Head(msgs).parsed IN
         IF parsed.type = "malformed"
         THEN Deliver(Tail(msgs), queue, cbs, log)
         ELSE LET d == _dispatch_message(parsed, queue, cbs)
              IN IF dispatch_escapes(d.entry.raised)
                 THEN [queue |-> d.queue, log |-> Append(log, d.entry),
                       rest |-> Tail(msgs)]
                 ELSE Deliver(Tail(msgs), d.queue, cbs, Append(log, d.entry))

Messages(msgs) == [i \in 1..Len(msgs) |-> msgs[i].message]

RECURSIVE Flatten(_)
Flatten(texts) ==
    IF texts = << >> THEN << >> ELSE Head(texts) \o Flatten(Tail(texts))

(* One round of _read_loop, lines 101-111: the reader thread, running,    *)
(* processes the text it has read.                                          *)
ReadRound(text) ==
    /\ k_running
    /\ k_serial = "open"
    /\ k_thread = "alive"
    /\ LET r == _process_data(rx_buffer, text)
           d == Deliver(r.msgs, response_queue, k_callbacks, << >>)
       IN /\ rx_buffer' = Flatten(Messages(d.rest)) \o r.buf
          /\ response_queue' = d.queue
          /\ k_log' = k_log \o d.log
    /\ UNCHANGED <<k_serial, k_running, k_callbacks, rx_pieces, k_thread>>

(* The reader reads the n characters that are waiting on the line; the     *)
(* messages it hands to parse_message are recorded.                         *)
ReadChunk(n) ==
    /\ n \in 1..Len(rx_pending)
    /\ ReadRound(SubSeq(rx_pending, 1, n))
    /\ LET r == _process_data(rx_buffer, SubSeq(rx_pending, 1, n))
       IN /\ rx_frames' = rx_frames \o Messages(r.msgs)
          /\ rx_split' = (rx_split \/ (r.buf # << >> /\ n < Len(rx_pending)))
    /\ rx_pending' = SubSeq(rx_pending, n + 1, Len(rx_pending))

(* The text the coprocessor sends is made of these pieces. *)
Pieces ==
    << <<"$", "R", "S", "P", ",", "1", ",", "O", "K", "#">>,
       <<"$", "1", ",", "0", "6", ",", "1", ",", "2", ",", "3", ",", "4", "#">>,
       <<"$", "1", ",", "0", "8", ",", "1", ",", "2", ",", "3", ",", "4", ",",
         "b", ",", "9", "5", "#">>,
       <<"$", "x", "#">>,
       <<"$", "R", "S", "P", ",", "x", ",", "#">>,
       <<"a">>,
       <<"$">>,
       <<"#">> >>

RECURSIVE Text(_)
Text(ps) == IF ps = << >> THEN << >> ELSE Pieces[Head(ps)] \o Text(Tail(ps))

(* K230Serial.__init__, lines 24-42 *)
KInit ==
    /\ k_serial = "none"
    /\ k_running = FALSE
    /\ k_thread = "none"
    /\ rx_buffer = << >>
    /\ rx_pending = << >>
    /\ response_queue = << >>
    /\ k_callbacks = [det |-> FALSE, rec |-> FALSE]
    /\ k_log = << >>
    /\ rx_frames = << >>
    /\ rx_split = FALSE
    /\ rx_pieces = << >>

(* The transport after SmartDoorController.start has connected it and set  *)
(* its callbacks, with the text of up to MaxPieces pieces on its way.       *)
RxInit ==
    /\ k_serial = "open"
    /\ k_running = TRUE
    /\ k_thread = "alive"
    /\ rx_buffer = << >>
    /\ \E k \in 1..MaxPieces :
         \E ps \in [1..k -> 1..Len(Pieces)] :
            /\ rx_pieces = ps
            /\ rx_pending = Text(ps)
    /\ response_queue = << >>
    /\ k_callbacks = [det |-> TRUE, rec |-> TRUE]
    /\ k_log = << >>
    /\ rx_frames = << >>
    /\ rx_split = FALSE

-----------------------------------------------------------------------------
(* K230Serial: connect, disconnect and send_command *)
Threads == {"t1", "t2"}

None == [type |-> "none"]

(* The command each thread sends: ping() and start_function(8). *)
CommandOf(t) ==
    IF t = "t1" THEN [cmd |-> <<"P", "I", "N", "G">>, args |-> << >>]
    ELSE [cmd |-> <<"S", "T", "A", "R", "T">>, args |-> << <<"8">> >>]

DigitChar(n) ==
    CASE n = 0 -> "0" [] n = 1 -> "1" [] n = 2 -> "2" [] n = 3 -> "3"
      [] n = 4 -> "4" [] n = 5 -> "5" [] n = 6 -> "6" [] n = 7 -> "7"
      [] n = 8 -> "8" [] n = 9 -> "9"

(* The coprocessor's answer to the j-th frame written: PONG to a PING, OK  *)
(* to anything else.  Its data field carries j, which the transport does    *)
(* not read; it lets the history tell which command a response answers.     *)
ResponseFrame(j) ==
    (IF tx[j].frame = build_command(<<"P", "I", "N", "G">>, << >>)
     THEN <<"$", "R", "S", "P", ",", "1", ",", "P", "O", "N", "G", ",">>
     ELSE <<"$", "R", "S", "P", ",", "1", ",", "O", "K", ",">>)
    \o <<DigitChar(j), "#">>

AnsweredFrame(response) == NatVal(response.data[1])

(* with self._lock, line 197 *)
k_acquire_unguarded(t) == k_lock' = k_lock

k_acquire(t) == k_lock = "none" /\ k_lock' = t

k_release == k_lock' = "none"

(* A return of send_command: the with block is left and the lock released. *)
(* The mutant returns with the lock held.                                   *)
Return_keeping_lock(t, outcome, result, written) ==
    /\ sc_done' = Append(sc_done,
          [call |-> sc_call[t], thread |-> t, outcome |-> outcome,
           result |-> result, written |-> written])
    /\ sc_pc' = [sc_pc EXCEPT ![t] = "idle"]
    /\ k_lock' = k_lock

Return(t, outcome, result, written) ==
    /\ sc_done' = Append(sc_done,
          [call |-> sc_call[t], thread |-> t, outcome |-> outcome,
           result |-> result, written |-> written])
    /\ sc_pc' = [sc_pc EXCEPT ![t] = "idle"]
    /\ k_release

(* send_command, lines 190-196: a thread calls and comes to the lock *)
SC_Call(t) ==
    /\ sc_pc[t] = "idle"
    /\ sc_calls + Cardinality({u \in Threads : sc_pc[u] = "lock"}) < MaxCalls
    /\ sc_pc' = [sc_pc EXCEPT ![t] = "lock"]
    /\ UNCHANGED <<rx_vars, k_lock, sc_call, sc_calls, tx, sc_done, dev_pending,
                   dev_events>>

(* line 197: the call enters the critical section; calls are numbered in   *)
(* the order they enter it.                                                 *)
SC_Enter(t) ==
    /\ sc_pc[t] = "lock"
    /\ k_acquire(t)
    /\ sc_calls' = sc_calls + 1
    /\ sc_call' = [sc_call EXCEPT ![t] = sc_calls + 1]
    /\ sc_pc' = [sc_pc EXCEPT ![t] = "check"]
    /\ UNCHANGED <<rx_vars, tx, sc_done, dev_pending, dev_events>>

(* lines 198-216: the connection checks, then the queue is drained *)
SC_CheckDrain(t) ==
    /\ sc_pc[t] = "check"
    /\ IF k_serial = "none"
       THEN Return(t, "not_connected", None, Len(tx)) /\ UNCHANGED response_queue
       ELSE IF k_thread = "dead"
       THEN Return(t, "reader_dead", None, Len(tx)) /\ UNCHANGED response_queue
       ELSE /\ response_queue' = << >>
            /\ sc_pc' = [sc_pc EXCEPT ![t] = "write"]
            /\ UNCHANGED <<k_lock, sc_done>>
    /\ UNCHANGED <<k_serial, k_running, rx_buffer, rx_pending, k_callbacks, k_log,
                   rx_frames, rx_split, rx_pieces, k_thread, sc_call,
                   sc_calls, tx, dev_pending, dev_events>>

(* lines 218-227: the frame is built, written and flushed. write raises   *)
(* (the transport was closed meanwhile, an I/O error) with nothing on the   *)
(* wire, or flush raises after the frame was written; both return None.     *)
SC_Write(t, io) ==
    /\ sc_pc[t] = "write"
    /\ LET sent == Append(tx, [call |-> sc_call[t],
                               frame |-> build_command(CommandOf(t).cmd, CommandOf(t).args),
                               returned |-> Len(sc_done)])
       IN  IF k_serial = "open" /\ io = "ok"
           THEN /\ tx' = sent
                /\ dev_pending' = dev_pending \cup {Len(tx) + 1}
                /\ sc_pc' = [sc_pc EXCEPT ![t] = "wait"]
                /\ UNCHANGED <<k_lock, sc_done>>
           ELSE IF k_serial = "open" /\ io = "flush_raises"
           THEN /\ tx' = sent
                /\ dev_pending' = dev_pending \cup {Len(tx) + 1}
                /\ Return(t, "write_failed", None, Len(tx) + 1)
           ELSE /\ tx' = tx
                /\ Return(t, "write_failed", None, Len(tx))
                /\ UNCHANGED dev_pending
    /\ UNCHANGED <<rx_vars, sc_call, sc_calls, dev_events>>

(* lines 231-234: a response is on the queue *)
SC_Receive(t) ==
    /\ sc_pc[t] = "wait"
    /\ response_queue # << >>
    /\ response_queue' = Tail(response_queue)
    /\ tx' = tx
    /\ Return(t, "response", Head(response_queue), Len(tx))
    /\ UNCHANGED <<k_serial, k_running, rx_buffer, rx_pending, k_callbacks, k_log,
                   rx_frames, rx_split, rx_pieces, k_thread, sc_call,
                   sc_calls, dev_pending, dev_events>>

(* lines 235-238: the queue stayed empty for the whole timeout *)
on_timeout_resending(t) ==
    /\ tx' = Append(tx, [call |-> sc_call[t], frame |-> tx[Len(tx)].frame,
                         returned |-> Len(sc_done)])
    /\ Return(t, "timeout", None, Len(tx) + 1)

on_timeout(t) ==
    /\ tx' = tx
    /\ Return(t, "timeout", None, Len(tx))

SC_Timeout(t) ==
    /\ sc_pc[t] = "wait"
    /\ response_queue = << >>
    /\ on_timeout(t)
    /\ UNCHANGED <<rx_vars, sc_call, sc_calls, dev_pending,
                   dev_events>>

(* Frames are followed for as long as a call is in progress or can still be *)
(* made: what arrives after the last call returned reaches no caller.         *)
CallsRemain == sc_calls < MaxCalls \/ \E t \in Threads : sc_pc[t] # "idle"

(* The coprocessor answers a command it has received, at any later time,  *)
(* and the reader thread reads and processes the answer.                    *)
Dev_Respond(j) ==
    /\ j \in dev_pending
    /\ CallsRemain
    /\ ReadRound(ResponseFrame(j))
    /\ dev_pending' = dev_pending \ {j}
    /\ UNCHANGED <<rx_pending, rx_frames, rx_split, k_lock, sc_pc, sc_call,
                   sc_calls, tx, sc_done, dev_events>>

(* The coprocessor sends a detection (piece 2) or a recognition (piece 3), *)
(* and the reader thread reads and processes it.                            *)
Dev_Event(p) ==
    /\ dev_events < MaxEvents
    /\ CallsRemain
    /\ ReadRound(Pieces[p])
    /\ dev_events' = dev_events + 1
    /\ UNCHANGED <<rx_pending, rx_frames, rx_split, k_lock, sc_pc, sc_call,
                   sc_calls, tx, sc_done, dev_pending>>

(* The status tokens the coprocessor answers with: those of the protocol,   *)
(* one in lower case and one the protocol does not have.                    *)
StatusTokens == {<<"O", "K">>, <<"P", "O", "N", "G">>, <<"E", "R", "R">>,
                 <<"o", "k">>, <<"B", "U", "S", "Y">>}

(* The answer to the j-th frame written, with the given status token.  Its  *)
(* data fields, which the transport does not read, carry j and the token.   *)
StatusFrame(j, token) ==
    ((<<"$", "R", "S", "P", ",", "1", ",">> \o token) \o <<",", DigitChar(j), ",">>)
    \o (token \o <<"#">>)

(* The coprocessor answers a command with any status token, and the reader  *)
(* thread reads and processes the answer.                                   *)
Dev_Respond_status(j, token) ==
    /\ j \in dev_pending
    /\ CallsRemain
    /\ ReadRound(StatusFrame(j, token))
    /\ dev_pending' = dev_pending \ {j}
    /\ UNCHANGED <<rx_pending, rx_frames, rx_split, k_lock, sc_pc, sc_call,
                   sc_calls, tx, sc_done, dev_events>>

(* K230Response.is_ok and is_pong, lines 51-57 of protocol.py *)
is_ok(response) == response.status = "OK"

is_pong(response) == response.status = "PONG"

(* ping, lines 242-247: resp is not None and resp.is_pong *)
ping(resp) == resp # None /\ is_pong(resp)

(* start_function, stop_function, register_face, delete_user and           *)
(* reload_database, lines 259-299: resp is not None and resp.is_ok          *)
ok_call(resp) == resp # None /\ is_ok(resp)

(* What the convenience call of thread t returns for what send_command      *)
(* returned: t1 is in ping(), t2 in start_function(8).                      *)
convenience(t, resp) ==
    IF CommandOf(t).cmd = <<"P", "I", "N", "G">> THEN ping(resp) ELSE ok_call(resp)

SCInit ==
    /\ k_lock = "none"
    /\ sc_pc = [t \in Threads |-> "idle"]
    /\ sc_call = [t \in Threads |-> 0]
    /\ sc_calls = 0
    /\ tx = << >>
    /\ sc_done = << >>
    /\ dev_pending = {}
    /\ dev_events = 0

-----------------------------------------------------------------------------
(* SerialManager and AsyncSerialManager (src/utils/serial_manager.py), the  *)
(* serial layer of the program of src/main.py.                               *)
Handlers == {"h1", "h2"}

EventNames == {"data", "error"}

NoDelivery == [kind |-> "none", event |-> "", registered |-> << >>, invoked |-> << >>]

(* list.remove: the list without the first occurrence of h *)
RECURSIVE Remove(_, _)
Remove(list, h) ==
    IF list = << >> THEN << >>
    ELSE IF Head(list) = h THEN Tail(list)
    ELSE <<Head(list)>> \o Remove(Tail(list), h)

Elements(list) == {list[i] : i \in 1..Len(list)}

(* The try/except of emit, lines 175-178, and of the callback loop of       *)
(* _rx_loop, lines 127-130: whether what a handler raised leaves the loop.   *)
emit_escapes_uncaught(raised) == raised

emit_escapes(raised) == FALSE

callback_escapes(raised) == FALSE

(* emit, lines 174-178: the handlers of the event are called in list order.  *)
RECURSIVE invoke_handlers(_, _)
invoke_handlers(handlers, invoked) ==
    IF handlers = << >> THEN [invoked |-> invoked, escaped |-> FALSE]
    ELSE IF emit_escapes(Head(handlers) \in em_raising)
    THEN [invoked |-> Append(invoked, Head(handlers)), escaped |-> TRUE]
    ELSE invoke_handlers(Tail(handlers), Append(invoked, Head(handlers)))

(* _rx_loop, lines 126-130: the callbacks are called in list order. *)
RECURSIVE invoke_callbacks(_, _)
invoke_callbacks(cbs, invoked) ==
    IF cbs = << >> THEN [invoked |-> invoked, escaped |-> FALSE]
    ELSE IF callback_escapes(Head(cbs) \in em_raising)
    THEN [invoked |-> Append(invoked, Head(cbs)), escaped |-> TRUE]
    ELSE invoke_callbacks(Tail(cbs), Append(invoked, Head(cbs)))

(* on, lines 157-161 *)
on(e, h) ==
    /\ program = "utils"
    /\ Len(event_handlers[e]) < MaxHandlers
    /\ event_handlers' = [event_handlers EXCEPT ![e] = Append(@, h)]
    /\ em_last' = NoDelivery
    /\ UNCHANGED <<program, k_cb_raises, callbacks, rx_queue, em_raising,
                   em_escaped>>

(* off, lines 163-169: one handler is removed, or all when none is given *)
off(e, h) ==
    /\ program = "utils"
    /\ event_handlers[e] # << >>
    /\ IF h = "None"
       THEN event_handlers' = [event_handlers EXCEPT ![e] = << >>]
       ELSE /\ h \in Elements(event_handlers[e])
            /\ event_handlers' = [event_handlers EXCEPT ![e] = Remove(@, h)]
    /\ em_last' = NoDelivery
    /\ UNCHANGED <<program, k_cb_raises, callbacks, rx_queue, em_raising,
                   em_escaped>>

(* register_callback, lines 104-106 *)
register_callback(h) ==
    /\ program = "utils"
    /\ Len(callbacks) < MaxHandlers
    /\ callbacks' = Append(callbacks, h)
    /\ em_last' = NoDelivery
    /\ UNCHANGED <<program, k_cb_raises, event_handlers, rx_queue, em_raising,
                   em_escaped>>

(* unregister_callback, lines 108-111 *)
unregister_callback(h) ==
    /\ program = "utils"
    /\ h \in Elements(callbacks)
    /\ callbacks' = Remove(callbacks, h)
    /\ em_last' = NoDelivery
    /\ UNCHANGED <<program, k_cb_raises, event_handlers, rx_queue, em_raising,
                   em_escaped>>

(* emit, lines 171-178 *)
emit(e) ==
    /\ program = "utils"
    /\ LET r == invoke_handlers(event_handlers[e], << >>) IN
         /\ em_last' = [kind |-> "emit", event |-> e,
                        registered |-> event_handlers[e], invoked |-> r.invoked]
         /\ em_escaped' = (em_escaped \/ r.escaped)
    /\ UNCHANGED <<program, k_cb_raises, event_handlers, callbacks, rx_queue,
                   em_raising>>

(* _rx_loop, lines 117-137, one round with a line read: the line is queued  *)
(* and handed to every callback; an exception that left the callback loop    *)
(* would be caught by the outer try (line 134) and the loop would go on.     *)
_rx_loop ==
    /\ program = "utils"
    /\ Len(rx_queue) < MaxLines
    /\ rx_queue' = Append(rx_queue, "line")
    /\ LET r == invoke_callbacks(callbacks, << >>) IN
         em_last' = [kind |-> "line", event |-> "",
                     registered |-> callbacks, invoked |-> r.invoked]
    /\ UNCHANGED <<program, k_cb_raises, event_handlers, callbacks, em_raising,
                   em_escaped>>

(* The serial layer of src/main.py is not there when src/smartdoor runs. *)
EmIdle ==
    /\ program = "smartdoor"
    /\ k_cb_raises = FALSE
    /\ event_handlers = [e \in EventNames |-> << >>]
    /\ callbacks = << >>
    /\ rx_queue = << >>
    /\ em_raising = {}
    /\ em_last = NoDelivery
    /\ em_escaped = FALSE

(* AsyncSerialManager.__init__, lines 16-31 and 151-155 *)
EmInit ==
    /\ program = "utils"
    /\ k_cb_raises = FALSE
    /\ event_handlers = [e \in EventNames |-> << >>]
    /\ callbacks = << >>
    /\ rx_queue = << >>
    /\ em_raising \in SUBSET Handlers
    /\ em_last = NoDelivery
    /\ em_escaped = FALSE

-----------------------------------------------------------------------------
(* StepperMotor (src/smartdoor/motor.py) with RPi.GPIO present.  Angles are *)
(* in 1/64 degree and delays in microseconds, which makes the arithmetic of *)
(* rotate and _send_pulses exact in integers; a frequency is a fraction.    *)
MotorThreads == {"m1", "m2"}

ppr == MOTOR_PULSES_PER_REV

min_delay == MOTOR_MIN_DELAY

max_delay == MOTOR_MAX_DELAY

(* Line 72: int((angle / 360.0) * self.ppr), for angle > 0 *)
pulses(angle) == (angle * ppr) \div (360 * 64)

Frac(n, d) == [num |-> n, den |-> d]

Whole(n) == Frac(n, 1)

Leq(a, b) == a.num * b.den <= b.num * a.den

Same(a, b) == a.num * b.den = b.num * a.den

NoFreq == Whole(0)

(* Lines 110-111 *)
min_freq == IF max_delay > 0 THEN 1000000 \div max_delay ELSE 500

max_freq == IF min_delay > 0 THEN 1000000 \div min_delay ELSE 2000

(* Lines 102-103: int(count * 0.2) *)
acc_steps(count) == (count * 2) \div 10

dec_steps(count) == (count * 2) \div 10

(* Line 141: max(min_freq, min(max_freq, current_freq)) *)
clamp(f) ==
    IF Leq(f, Whole(min_freq)) THEN Whole(min_freq)
    ELSE IF Leq(Whole(max_freq), f) THEN Whole(max_freq)
    ELSE f

(* Lines 121, 133: min_freq + (max_freq - min_freq) * progress, where the   *)
(* progress is k / (n - 1); with n <= 1 the frequency is min_freq.          *)
ramp(k, n) ==
    IF n > 1
    THEN Frac(min_freq * (n - 1) + (max_freq - min_freq) * k, n - 1)
    ELSE Whole(min_freq)

(* Lines 114-141: the frequency of pulse i of a train of count pulses. *)
current_freq_counting_from_one(count, i) ==
    clamp(IF i < acc_steps(count)
          THEN ramp(i, acc_steps(count))
          ELSE IF i >= count - dec_steps(count)
               THEN ramp(count - i, dec_steps(count))
               ELSE Whole(max_freq))

current_freq(count, i) ==
    clamp(IF i < acc_steps(count)
          THEN ramp(i, acc_steps(count))
          ELSE IF i >= count - dec_steps(count)
               THEN ramp((count - i) - 1, dec_steps(count))
               ELSE Whole(max_freq))

(* Line 76: with self._lock *)
mt_acquire_unguarded(t) == mt_lock' = t

mt_acquire(t) == mt_lock = "none" /\ mt_lock' = t

mt_release == mt_lock' = "none"

Write(t, pin, level, freq) ==
    [rot |-> mt_rot[t], pin |-> pin, level |-> level, freq |-> freq]

(* Lines 61-74: the call; a non-positive angle returns at once. *)
rotate(t, angle, cw) ==
    /\ mt_pc[t] = "idle"
    /\ IF angle <= 0
       THEN /\ mt_hist' = Append(mt_hist, [thread |-> t, angle |-> angle, cw |-> cw,
                                           pulses |-> 0, done |-> TRUE])
            /\ UNCHANGED <<mt_pc, mt_rot>>
       ELSE /\ mt_hist' = Append(mt_hist, [thread |-> t, angle |-> angle, cw |-> cw,
                                           pulses |-> pulses(angle), done |-> FALSE])
            /\ mt_rot' = [mt_rot EXCEPT ![t] = Len(mt_hist) + 1]
            /\ mt_pc' = [mt_pc EXCEPT ![t] = "lock"]
    /\ UNCHANGED <<mt_lock, mt_i, dir_pin, pul_pin, mt_wire>>

(* Line 76: the caller waits for the lock. *)
rotate_lock(t) ==
    /\ mt_pc[t] = "lock"
    /\ mt_acquire(t)
    /\ mt_pc' = [mt_pc EXCEPT ![t] = "dir"]
    /\ UNCHANGED <<mt_rot, mt_i, dir_pin, pul_pin, mt_wire, mt_hist>>

(* Lines 82-88 and 98-99: the direction pin is written; a train of no pulse *)
(* returns at once and the lock is released.                                *)
rotate_direction(t) ==
    /\ mt_pc[t] = "dir"
    /\ LET r == mt_hist[mt_rot[t]]
           level == IF r.cw THEN "HIGH" ELSE "LOW"
       IN /\ dir_pin' = level
          /\ mt_wire' = Append(mt_wire, Write(t, "DIR", level, NoFreq))
          /\ IF r.pulses <= 0
             THEN /\ mt_release
                  /\ mt_pc' = [mt_pc EXCEPT ![t] = "idle"]
                  /\ mt_hist' = [mt_hist EXCEPT ![mt_rot[t]].done = TRUE]
             ELSE /\ mt_pc' = [mt_pc EXCEPT ![t] = "high"]
                  /\ UNCHANGED <<mt_lock, mt_hist>>
    /\ mt_i' = [mt_i EXCEPT ![t] = 0]
    /\ UNCHANGED <<mt_rot, pul_pin>>

(* Lines 113-148: the frequency of pulse i is computed and the pulse pin   *)
(* goes HIGH for half of the period.                                        *)
_send_pulses_high(t) ==
    /\ mt_pc[t] = "high"
    /\ pul_pin' = "HIGH"
    /\ mt_wire' = Append(mt_wire,
          Write(t, "PUL", "HIGH", current_freq(mt_hist[mt_rot[t]].pulses, mt_i[t])))
    /\ mt_pc' = [mt_pc EXCEPT ![t] = "low"]
    /\ UNCHANGED <<mt_lock, mt_rot, mt_i, dir_pin, mt_hist>>

(* Lines 149-150: the pulse pin goes LOW for the other half; after the last *)
(* pulse _send_pulses returns and rotate releases the lock.                 *)
_send_pulses_low(t) ==
    /\ mt_pc[t] = "low"
    /\ pul_pin' = "LOW"
    /\ mt_wire' = Append(mt_wire,
          Write(t, "PUL", "LOW", current_freq(mt_hist[mt_rot[t]].pulses, mt_i[t])))
    /\ mt_i' = [mt_i EXCEPT ![t] = @ + 1]
    /\ IF mt_i[t] + 1 < mt_hist[mt_rot[t]].pulses
       THEN /\ mt_pc' = [mt_pc EXCEPT ![t] = "high"]
            /\ UNCHANGED <<mt_lock, mt_hist>>
       ELSE /\ mt_release
            /\ mt_pc' = [mt_pc EXCEPT ![t] = "idle"]
            /\ mt_hist' = [mt_hist EXCEPT ![mt_rot[t]].done = TRUE]
    /\ UNCHANGED <<mt_rot, dir_pin>>

(* StepperMotor.__init__, lines 46-57: both pins are set up LOW. *)
MotorInit ==
    /\ mt_lock = "none"
    /\ mt_pc = [t \in MotorThreads |-> "idle"]
    /\ mt_rot = [t \in MotorThreads |-> 0]
    /\ mt_i = [t \in MotorThreads |-> 0]
    /\ dir_pin = "LOW"
    /\ pul_pin = "LOW"
    /\ mt_wire = << >>
    /\ mt_hist = << >>

-----------------------------------------------------------------------------
(* WebSocketClient (src/smartdoor/websocket_client.py).  The threads: "conn" *)
(* is the WS-Connect thread of start_async, "rl1" and "rl2" are            *)
(* WS-Reconnect threads, "sio" is the thread in which the socketio client   *)
(* delivers its events.                                                     *)
Loops == {"rl1", "rl2"}

Connectors == {"conn"} \cup Loops

Schedulers == {"conn", "sio"}

(* Line 154 *)
delays == <<1, 2, 5, 10, 30, 60>>

Min(a, b) == IF a < b THEN a ELSE b

(* Line 158: delays[min(retry, len(delays) - 1)]; sequences start at 1 here *)
delay_wrapping(retry) == delays[(retry % Len(delays)) + 1]

delay(retry) == delays[Min(retry, Len(delays) - 1) + 1]

(* Line 97 and line 168: with self._lock *)
ws_acquire(t) == ws_lock = "none" /\ ws_lock' = t

ws_release == ws_lock' = "none"

(* What happened after disconnect() cleared _should_run. *)
Late(what) == IF ws_should_run THEN ws_late ELSE ws_late \cup {what}

(* Lines 173-183 and 97: controller.start calls start_async once; the new   *)
(* thread calls connect, which waits for the lock.                          *)
start_async ==
    /\ ws_pc["conn"] = "idle"
    /\ ws_pc' = [ws_pc EXCEPT !["conn"] = "lock"]
    /\ UNCHANGED <<ws_should_run, ws_connected, ws_sio, ws_lock, ws_rt, ws_sched,
                   rl_retry, rl_delays, ws_runs, md_pc, ws_drops, ws_late>>

(* Lines 97 and 168 *)
DC_Lock(t) ==
    /\ ws_pc[t] = "lock"
    /\ ws_acquire(t)
    /\ ws_pc' = [ws_pc EXCEPT ![t] = "create"]
    /\ UNCHANGED <<ws_should_run, ws_connected, ws_sio, ws_rt, ws_sched,
                   rl_retry, rl_delays, ws_runs, md_pc, ws_drops, ws_late>>

(* Lines 104-111: the old client is disconnected and a new one is created. *)
DC_Create(t) ==
    /\ ws_pc[t] = "create"
    /\ ws_sio' = "client"
    /\ ws_pc' = [ws_pc EXCEPT ![t] = "connect"]
    /\ UNCHANGED <<ws_should_run, ws_connected, ws_lock, ws_rt, ws_sched,
                   rl_retry, rl_delays, ws_runs, md_pc, ws_drops, ws_late>>

(* Lines 116-135 and 59-67: the connection attempt.  When it succeeds the   *)
(* connect handler sets _connected; when it fails, connect_error clears it  *)
(* and _do_connect returns False.  self._sio is read at line 116: after     *)
(* disconnect() has set it to None the call raises and the result is False. *)
DC_Connect(t, ok) ==
    /\ ws_pc[t] = "connect"
    /\ IF ws_sio = "none"
       THEN /\ ws_pc' = [ws_pc EXCEPT ![t] = "failed"]
            /\ UNCHANGED <<ws_connected, ws_late>>
       ELSE /\ ws_connected' = ok
            /\ ws_late' = (IF t \in Loops THEN Late("attempt") ELSE ws_late)
                              \cup (IF ok THEN Late("connected") ELSE {})
            /\ ws_pc' = [ws_pc EXCEPT ![t] = IF ok THEN "return" ELSE "failed"]
    /\ UNCHANGED <<ws_should_run, ws_sio, ws_lock, ws_rt, ws_sched,
                   rl_retry, rl_delays, ws_runs, md_pc, ws_drops>>

(* Lines 128, 132, 135 with 98 and 183-184 (connect of the WS-Connect       *)
(* thread) or 169-171 (the reconnect loop): the lock is released; on        *)
(* success the loop ends, on failure it goes round and the WS-Connect thread *)
(* calls _schedule_reconnect.                                               *)
DC_Return(t) ==
    /\ ws_pc[t] \in {"return", "failed"}
    /\ ws_release
    /\ LET result == ws_pc[t] = "return" /\ ws_connected IN
       IF t \in Loops
       THEN /\ ws_pc' = [ws_pc EXCEPT ![t] = IF result THEN "off" ELSE "while"]
            /\ UNCHANGED ws_sched
       ELSE /\ ws_pc' = [ws_pc EXCEPT ![t] = "done"]
            /\ ws_sched' = [ws_sched EXCEPT ![t] = IF result THEN "idle" ELSE "check"]
    /\ UNCHANGED <<ws_should_run, ws_connected, ws_sio, ws_rt, rl_retry, rl_delays,
                   ws_runs, md_pc, ws_drops, ws_late>>

(* Lines 69-73: the connection is lost and the disconnect handler runs. *)
on_disconnect ==
    /\ ws_connected
    /\ ws_sio # "none"
    /\ ws_sched["sio"] = "idle"
    /\ ws_drops < MaxDrops
    /\ ws_drops' = ws_drops + 1
    /\ ws_connected' = FALSE
    /\ ws_sched' = [ws_sched EXCEPT !["sio"] = "check"]
    /\ UNCHANGED <<ws_should_run, ws_sio, ws_lock, ws_rt, ws_pc, rl_retry,
                   rl_delays, ws_runs, md_pc, ws_late>>

(* Line 142: self._reconnect_thread and self._reconnect_thread.is_alive() *)
is_alive == ws_rt # "none" /\ ws_pc[ws_rt] # "off"

(* Lines 139-143 *)
_schedule_reconnect(t) ==
    /\ ws_sched[t] = "check"
    /\ ws_sched' = [ws_sched EXCEPT ![t] =
                       IF ~ws_should_run \/ is_alive THEN "idle" ELSE "spawn"]
    /\ UNCHANGED <<ws_should_run, ws_connected, ws_sio, ws_lock, ws_rt, ws_pc,
                   rl_retry, rl_delays, ws_runs, md_pc, ws_drops, ws_late>>

(* Lines 145-155: the thread is created and started; retry = 0. *)
_schedule_reconnect_start(t, l) ==
    /\ ws_sched[t] = "spawn"
    /\ ws_pc[l] = "off"
    /\ ws_sched' = [ws_sched EXCEPT ![t] = "idle"]
    /\ ws_rt' = l
    /\ ws_pc' = [ws_pc EXCEPT ![l] = "while"]
    /\ rl_retry' = [rl_retry EXCEPT ![l] = 0]
    /\ rl_delays' = [rl_delays EXCEPT ![l] = << >>]
    /\ ws_runs' = ws_runs + 1
    /\ ws_late' = Late("loop")
    /\ UNCHANGED <<ws_should_run, ws_connected, ws_sio, ws_lock, md_pc, ws_drops>>

(* Line 157 *)
_reconnect_loop_while(l) ==
    /\ ws_pc[l] = "while"
    /\ IF ws_should_run /\ ~ws_connected
       THEN /\ Len(rl_delays[l]) < MaxSleeps
            /\ ws_pc' = [ws_pc EXCEPT ![l] = "sleep"]
       ELSE /\ ws_pc' = [ws_pc EXCEPT ![l] = "off"]
    /\ UNCHANGED <<ws_should_run, ws_connected, ws_sio, ws_lock, ws_rt, ws_sched,
                   rl_retry, rl_delays, ws_runs, md_pc, ws_drops, ws_late>>

(* Lines 158-166: the sleep, the second look at _should_run, retry += 1 *)
_reconnect_loop_sleep(l) ==
    /\ ws_pc[l] = "sleep"
    /\ rl_delays' = [rl_delays EXCEPT ![l] = Append(@, delay(rl_retry[l]))]
    /\ IF ~ws_should_run
       THEN /\ ws_pc' = [ws_pc EXCEPT ![l] = "off"]
            /\ UNCHANGED rl_retry
       ELSE /\ ws_pc' = [ws_pc EXCEPT ![l] = "lock"]
            /\ rl_retry' = [rl_retry EXCEPT ![l] = @ + 1]
    /\ UNCHANGED <<ws_should_run, ws_connected, ws_sio, ws_lock, ws_rt, ws_sched,
                   ws_runs, md_pc, ws_drops, ws_late>>

(* Line 188 *)
disconnect_flag ==
    /\ md_pc = "idle"
    /\ md_pc' = "connected"
    /\ ws_should_run' = FALSE
    /\ UNCHANGED <<ws_connected, ws_sio, ws_lock, ws_rt, ws_pc, ws_sched, rl_retry,
                   rl_delays, ws_runs, ws_drops, ws_late>>

(* Line 189 *)
disconnect_connected ==
    /\ md_pc = "connected"
    /\ md_pc' = "sio"
    /\ ws_connected' = FALSE
    /\ UNCHANGED <<ws_should_run, ws_sio, ws_lock, ws_rt, ws_pc, ws_sched, rl_retry,
                   rl_delays, ws_runs, ws_drops, ws_late>>

(* Lines 191-198: the client is disconnected (its disconnect handler clears *)
(* _connected and schedules nothing, _should_run being False) and dropped.  *)
disconnect_sio ==
    /\ md_pc = "sio"
    /\ md_pc' = "done"
    /\ ws_connected' = IF ws_sio # "none" THEN FALSE ELSE ws_connected
    /\ ws_sio' = "none"
    /\ UNCHANGED <<ws_should_run, ws_lock, ws_rt, ws_pc, ws_sched, rl_retry,
                   rl_delays, ws_runs, ws_drops, ws_late>>

(* WebSocketClient.__init__, lines 34-44 *)
WsInit ==
    /\ ws_should_run = TRUE
    /\ ws_connected = FALSE
    /\ ws_sio = "none"
    /\ ws_lock = "none"
    /\ ws_rt = "none"
    /\ ws_pc = [t \in Connectors |-> IF t \in Loops THEN "off" ELSE "idle"]
    /\ ws_sched = [t \in Schedulers |-> "idle"]
    /\ rl_retry = [l \in Loops |-> 0]
    /\ rl_delays = [l \in Loops |-> << >>]
    /\ ws_runs = 0
    /\ md_pc = "idle"
    /\ ws_drops = 0
    /\ ws_late = {}

-----------------------------------------------------------------------------
(* SmartDoorController (src/smartdoor/controller.py).  The threads: "main"  *)
(* calls start() and stop(); "reader" is the K230-Reader thread, in which   *)
(* the detection and recognition callbacks and, through the face manager,   *)
(* _handle_face_success and _handle_face_reject run; "timer" is the Timer   *)
(* thread of _timer_loop; "sio" is the thread in which the socketio client  *)
(* delivers the remote commands; "close" stands for the threading.Timer     *)
(* threads of the auto-close; "worker" for the threads started for one      *)
(* rotation or one registration.  The face manager is represented by its    *)
(* two callbacks, the motor by the calls of rotate.                         *)
Commands == {"OPEN", "CLOSE", "REGISTER_FACE", "REGISTER_FACE_NO_ID", "REFRESH",
             "SET_CONFIG", "OTHER"}

ConfigAngles == {MOTOR_OPEN_ANGLE, 45 * 64}

rx_rest == <<rx_buffer, rx_pending, response_queue, k_log, rx_frames, rx_split,
             rx_pieces>>

(* The components the controller's steps below do not touch. *)
ct_others == <<fm_vars, sc_vars, em_vars, mt_vars, pk_vars, pa_vars, sd_vars, dr_vars,
               rg_vars>>

(* K230Serial.connect, lines 49-78: the port opens and the reader thread    *)
(* starts, or serial.Serial raises and nothing has changed.                 *)
K_connect(ok) ==
    /\ k_serial' = IF ok THEN "open" ELSE k_serial
    /\ k_running' = IF ok THEN TRUE ELSE k_running
    /\ k_thread' = IF ok THEN "alive" ELSE k_thread

(* K230Serial.disconnect, lines 80-95: the reader thread leaves its loop    *)
(* and is joined, the port is closed.                                       *)
K_disconnect ==
    /\ k_serial' = "none"
    /\ k_running' = FALSE
    /\ k_thread' = "none"

(* Lines 212 and 235: not self._connected or not self._sio *)
offline_ignoring_connected == ws_sio = "none"

offline == ~ws_connected \/ ws_sio = "none"

(* Lines 215-219 and 238-253: an exception of emit is caught and logged. *)
report_escapes(raised) == FALSE

(* report_door_status and report_log, lines 210-253: n reports are made in  *)
(* one step; each emits one event unless the client is offline.             *)
report(n, raises) ==
    /\ ws_emitted' = IF offline THEN ws_emitted ELSE ws_emitted + n
    /\ ct_escaped' = (ct_escaped \/ (~offline /\ report_escapes(raises)))

(* threading.Thread(target=..., daemon=True).start(): the thread in which   *)
(* the target runs.                                                         *)
thread_of_inline(by) == by

thread_of(by) == "worker"

Worker(target, by, cw) ==
    [target |-> target, by |-> by, thread |-> thread_of(by), cw |-> cw,
     angle |-> open_angle, state |-> "started"]

(* Line 250-251 and 119-120: cancel() of a timer that has not fired yet. *)
cancel(timers, id) ==
    IF id # 0 /\ timers[id] = "pending"
    THEN [timers EXCEPT ![id] = "cancelled"]
    ELSE timers

(* _open_door, lines 245-268 *)
_open_door(by) ==
    /\ door_status' = "OPEN"
    /\ ct_writes' = ct_writes \cup {[thread |-> by, value |-> "OPEN"]}
    /\ ct_workers' = Append(ct_workers, Worker("rotate", by, TRUE))
    /\ ct_timers' = Append(cancel(ct_timers, close_timer), "pending")
    /\ close_timer' = Len(ct_timers) + 1

(* _close_door, lines 270-282 *)
_close_door(by) ==
    /\ door_status' = "CLOSED"
    /\ ct_writes' = ct_writes \cup {[thread |-> by, value |-> "CLOSED"]}
    /\ ct_workers' = Append(ct_workers, Worker("rotate", by, FALSE))

(* start(), lines 69-72 *)
start_connect(ok) ==
    /\ ct_main = "new"
    /\ K_connect(ok)
    /\ ct_main' = IF ok THEN "ping" ELSE "failed"
    /\ ct_start' = IF ok THEN ct_start ELSE "open_failed"
    /\ UNCHANGED <<ct_running, ct_timer_thread, door_status, close_timer, ct_timers,
                   ct_on_command, open_angle, ct_workers, ct_writes, ct_long,
                   ws_emitted, ct_escaped, ct_handled, ct_successes, ct_late>>
    /\ UNCHANGED <<k_callbacks, rx_rest, ws_vars, ct_others>>

(* The step after the PING of line 75. *)
after_ping_ignoring(pong) == "function"

after_ping(pong) == IF pong THEN "function" ELSE "failed"

(* start(), lines 75-88: PING; without a PONG the transport is disconnected *)
(* and start returns False; with it the callbacks are set and the remote    *)
(* channel is started.                                                      *)
start_ping(pong) ==
    /\ ct_main = "ping"
    /\ ct_long' = ct_long \cup {[thread |-> "main", op |-> "ping"]}
    /\ ct_start' = IF pong THEN ct_start ELSE "ping_failed"
    /\ ct_main' = after_ping(pong)
    /\ IF after_ping(pong) = "failed"
       THEN /\ K_disconnect
            /\ UNCHANGED <<k_callbacks, ct_on_command, ws_vars>>
       ELSE /\ k_callbacks' = [det |-> TRUE, rec |-> TRUE]
            /\ ct_on_command' = TRUE
            /\ start_async
            /\ UNCHANGED <<k_serial, k_running, k_thread>>
    /\ UNCHANGED <<ct_running, ct_timer_thread, door_status, close_timer, ct_timers,
                   open_angle, ct_workers, ct_writes, ws_emitted, ct_escaped,
                   ct_handled, ct_successes, ct_late>>
    /\ UNCHANGED <<rx_rest, ct_others>>

(* start(), lines 91-110: the recognition function is started (with the    *)
(* detection function as the fallback), then the timer thread.              *)
start_function ==
    /\ ct_main = "function"
    /\ ct_main' = "started"
    /\ ct_long' = ct_long \cup {[thread |-> "main", op |-> "start_function"]}
    /\ ct_running' = TRUE
    /\ ct_timer_thread' = "alive"
    /\ UNCHANGED <<door_status, close_timer, ct_timers, ct_on_command, open_angle,
                   ct_workers, ct_writes, ws_emitted, ct_escaped, ct_handled,
                   ct_successes, ct_start, ct_late>>
    /\ UNCHANGED <<rx_vars, ws_vars, ct_others>>

(* stop(), lines 116-124: the flag, the auto-close timer, the coprocessor. *)
stop_cancel ==
    /\ ct_main = "started"
    /\ ct_main' = "stop_k230"
    /\ ct_running' = FALSE
    /\ ct_timers' = cancel(ct_timers, close_timer)
    /\ UNCHANGED <<ct_timer_thread, door_status, close_timer, ct_on_command,
                   open_angle, ct_workers, ct_writes, ct_long, ws_emitted,
                   ct_escaped, ct_handled, ct_successes, ct_start, ct_late>>
    /\ UNCHANGED <<rx_vars, ws_vars, ct_others>>

stop_k230 ==
    /\ ct_main = "stop_k230"
    /\ ct_main' = "stop_ws"
    /\ ct_long' = ct_long \cup {[thread |-> "main", op |-> "stop_function"]}
    /\ K_disconnect
    /\ UNCHANGED <<ct_running, ct_timer_thread, door_status, close_timer, ct_timers,
                   ct_on_command, open_angle, ct_workers, ct_writes, ws_emitted,
                   ct_escaped, ct_handled, ct_successes, ct_start, ct_late>>
    /\ UNCHANGED <<k_callbacks, rx_rest, ws_vars, ct_others>>

(* stop(), lines 127-133, after ws.disconnect() has returned: the timer     *)
(* thread has seen _running False and is joined.                            *)
stop_join ==
    /\ ct_main = "stop_ws"
    /\ md_pc = "done"
    /\ ct_main' = "stopped"
    /\ ct_timer_thread' = "dead"
    /\ UNCHANGED <<ct_running, door_status, close_timer, ct_timers, ct_on_command,
                   open_angle, ct_workers, ct_writes, ct_long, ws_emitted,
                   ct_escaped, ct_handled, ct_successes, ct_start, ct_late>>
    /\ UNCHANGED <<rx_vars, ws_vars, ct_others>>

(* What was done after stop() returned. *)
AfterStop(what) == IF ct_main = "stopped" THEN ct_late \cup {what} ELSE ct_late

(* _handle_face_success, lines 169-181, called by the face manager in the   *)
(* reader thread.                                                           *)
_handle_face_success(raises) ==
    /\ k_thread = "alive"
    /\ k_callbacks.rec
    /\ ct_handled < MaxHandled
    /\ ct_handled' = ct_handled + 1
    /\ ct_successes' = ct_successes + 1
    /\ _open_door("reader")
    /\ report(2, raises)
    /\ UNCHANGED <<ct_main, ct_running, ct_timer_thread, ct_on_command, open_angle,
                   ct_long, ct_start, ct_late>>
    /\ UNCHANGED <<rx_vars, ws_vars, ct_others>>

(* _handle_face_reject, lines 183-190, called by the face manager in the    *)
(* reader thread (on_recognition_result) or in the timer thread             *)
(* (check_timeout, line 142).                                               *)
_handle_face_reject(by, raises) ==
    /\ \/ by = "reader" /\ k_thread = "alive" /\ k_callbacks.rec
       \/ by = "timer" /\ ct_timer_thread = "alive" /\ ct_running
    /\ ct_handled < MaxHandled
    /\ ct_handled' = ct_handled + 1
    /\ report(1, raises)
    /\ UNCHANGED <<ct_main, ct_running, ct_timer_thread, door_status, close_timer,
                   ct_timers, ct_on_command, open_angle, ct_workers, ct_writes,
                   ct_long, ct_successes, ct_start, ct_late>>
    /\ UNCHANGED <<rx_vars, ws_vars, ct_others>>

(* _timer_loop, lines 145-148: the periodic status report. *)
_timer_loop_report(raises) ==
    /\ ct_timer_thread = "alive"
    /\ ct_running
    /\ ct_handled < MaxHandled
    /\ ct_handled' = ct_handled + 1
    /\ report(1, raises)
    /\ UNCHANGED <<ct_main, ct_running, ct_timer_thread, door_status, close_timer,
                   ct_timers, ct_on_command, open_angle, ct_workers, ct_writes,
                   ct_long, ct_successes, ct_start, ct_late>>
    /\ UNCHANGED <<rx_vars, ws_vars, ct_others>>

(* _on_ws_command, lines 194-241, called by handle_command (lines 75-82)    *)
(* in the thread of the socketio client while the client is connected.      *)
_on_ws_command(cmd, angle, raises) ==
    /\ ws_connected
    /\ ws_sio # "none"
    /\ ct_on_command
    /\ ct_handled < MaxHandled
    /\ ct_handled' = ct_handled + 1
    /\ CASE cmd = "OPEN" ->
              /\ _open_door("sio")
              /\ report(2, raises)
              /\ UNCHANGED open_angle
         [] cmd = "CLOSE" ->
              /\ _close_door("sio")
              /\ report(2, raises)
              /\ UNCHANGED <<close_timer, ct_timers, open_angle>>
         [] cmd = "REGISTER_FACE" ->
              /\ ct_workers' = Append(ct_workers, Worker("_register_face", "sio", FALSE))
              /\ UNCHANGED <<door_status, close_timer, ct_timers, ct_writes,
                             open_angle, ws_emitted, ct_escaped>>
         [] cmd \in {"REGISTER_FACE_NO_ID", "REFRESH"} ->
              /\ report(1, raises)
              /\ UNCHANGED <<door_status, close_timer, ct_timers, ct_writes,
                             open_angle, ct_workers>>
         [] cmd = "SET_CONFIG" ->
              /\ open_angle' = angle
              /\ report(1, raises)
              /\ UNCHANGED <<door_status, close_timer, ct_timers, ct_writes,
                             ct_workers>>
         [] OTHER ->
              UNCHANGED <<door_status, close_timer, ct_timers, ct_writes,
                          open_angle, ct_workers, ws_emitted, ct_escaped>>
    /\ UNCHANGED <<ct_main, ct_running, ct_timer_thread, ct_on_command, ct_long,
                   ct_successes, ct_start, ct_late>>
    /\ UNCHANGED <<rx_vars, ws_vars, ct_others>>

(* The auto-close timer fires: threading.Timer runs _close_door, lines      *)
(* 264-268 and 270-282.                                                     *)
close_timer_fires(id, raises) ==
    /\ ct_timers[id] = "pending"
    /\ ct_timers' = [ct_timers EXCEPT ![id] = "fired"]
    /\ _close_door("close")
    /\ report(1, raises)
    /\ ct_late' = AfterStop("close")
    /\ UNCHANGED <<ct_main, ct_running, ct_timer_thread, close_timer, ct_on_command,
                   open_angle, ct_long, ct_handled, ct_successes, ct_start>>
    /\ UNCHANGED <<rx_vars, ws_vars, ct_others>>

(* A worker thread runs its target: rotate waits for the motor's lock       *)
(* (motor.py line 76); _register_face, lines 286-307, sends three commands  *)
(* and makes two reports.                                                   *)
worker_runs(i, raises) ==
    /\ ct_workers[i].state = "started"
    /\ ct_workers' = [ct_workers EXCEPT ![i].state = "done"]
    /\ IF ct_workers[i].target = "rotate"
       THEN /\ ct_long' = ct_long \cup {[thread |-> ct_workers[i].thread, op |-> "rotate"]}
            /\ UNCHANGED <<ws_emitted, ct_escaped>>
       ELSE /\ ct_long' = ct_long \cup
                 {[thread |-> ct_workers[i].thread, op |-> o] :
                     o \in {"stop_function", "register_face", "start_function"}}
            /\ report(2, raises)
    /\ UNCHANGED <<ct_main, ct_running, ct_timer_thread, door_status, close_timer,
                   ct_timers, ct_on_command, open_angle, ct_writes, ct_handled,
                   ct_successes, ct_start, ct_late>>
    /\ UNCHANGED <<rx_vars, ws_vars, ct_others>>

(* SmartDoorController.__init__, lines 22-57 *)
CtInit ==
    /\ ct_main = "new"
    /\ ct_running = FALSE
    /\ ct_timer_thread = "none"
    /\ door_status = "CLOSED"
    /\ close_timer = 0
    /\ ct_timers = << >>
    /\ ct_on_command = FALSE
    /\ open_angle = MOTOR_OPEN_ANGLE
    /\ ct_workers = << >>
    /\ ct_writes = {}
    /\ ct_long = {}
    /\ ws_emitted = 0
    /\ ct_escaped = FALSE
    /\ ct_handled = 0
    /\ ct_successes = 0
    /\ ct_start = "none"
    /\ ct_late = {}

-----------------------------------------------------------------------------
(* The legacy length-prefixed dialect: utils/protocol.py *)

(* A str is kept by what its length depends on: the number of its ASCII     *)
(* characters and the number of its characters that take three bytes in     *)
(* UTF-8 (a CJK name).                                                      *)
Str(a, w) == [ascii |-> a, wide |-> w]

(* len() of a str counts characters. *)
len(s) == s.ascii + s.wide

(* s.encode('utf-8'): a bytes object of one byte for an ASCII character and *)
(* three for a wide one; b.decode('utf-8') gives the str back.              *)
encode(s) == [bytes |-> s.ascii + 3 * s.wide, text |-> s]

decode(b) == b.text

(* str(n) of a non-negative int: its decimal digits. *)
RECURSIVE str(_)
str(n) == IF n < 10 THEN Str(1, 0)
          ELSE Str(str(n \div 10).ascii + 1, 0)

(* Line 23: SEPARATOR.join(data_parts). *)
RECURSIVE join_parts(_)
join_parts(parts) ==
    IF Len(parts) = 1 THEN parts[1]
    ELSE LET rest == join_parts(Tail(parts))
         IN  Str(parts[1].ascii + 1 + rest.ascii, parts[1].wide + rest.wide)

(* Line 26: range(5). *)
Rounds == 5

(* The function ids and argument lists tried: ids of one, two and three     *)
(* digits; no argument, one ASCII argument of any length up to MaxArgLen,   *)
(* and a second argument that is empty, ASCII, wide or mixed.               *)
FuncIds == {1, 11, 100}

ArgLists ==
    {<<>>}
    \cup {<<Str(a, 0)>> : a \in 0..MaxArgLen}
    \cup {<<Str(a, 0), b>> :
            a \in 0..MaxArgLen, b \in {Str(0, 0), Str(2, 0), Str(0, 2), Str(1, 1)}}

(* Line 27: f"{START_CHAR}{temp_len}{SEPARATOR}{data_str}{END_CHAR}", kept  *)
(* with the length field it carries.                                        *)
full_str(temp_len, data_str) ==
    [field |-> temp_len,
     text  |-> Str(1 + str(temp_len).ascii + 1 + data_str.ascii + 1,
                   data_str.wide)]

(* The last round of the loop of line 26.  The mutant stops after the       *)
(* second round.                                                            *)
last_round_second(i) == i = 1

last_round(i) == i = Rounds - 1

(* Lines 26-30: the loop.  Round i builds full_str with temp_len and stops  *)
(* when its length is temp_len; otherwise temp_len becomes that length.     *)
(* After the last round full_str is the one built in it.                    *)
RECURSIVE build_loop(_, _, _)
build_loop(i, temp_len, data_str) ==
    LET full == full_str(temp_len, data_str)
    IN  IF len(full.text) = temp_len \/ last_round(i)
        THEN [field |-> full.field, text |-> full.text, rounds |-> i + 1]
        ELSE build_loop(i + 1, len(full.text), data_str)

(* No packet built yet. *)
NoPacket == [field |-> 0, frame |-> Str(0, 0), rounds |-> 0,
             data |-> encode(Str(0, 0))]

(* _build_packet, lines 17-32: the packet is full_str and a newline,        *)
(* encoded.                                                                 *)
_build_packet(func_id, args) ==
    /\ pk_packet = NoPacket
    /\ LET data_parts == <<str(func_id)>> \o args
           data_str   == join_parts(data_parts)
           temp_len   == len(data_str) + 3
           built      == build_loop(0, temp_len, data_str)
       IN  /\ pk_packet' = [field  |-> built.field,
                            frame  |-> built.text,
                            rounds |-> built.rounds,
                            data   |-> encode(Str(built.text.ascii + 1,
                                                  built.text.wide))]
           /\ pk_call' = [func_id |-> func_id, args |-> args]
    /\ UNCHANGED pk_parsed

(* parse_data, lines 61-84, of the packet just built: bytes are decoded and *)
(* stripped (the newline goes; the frame starts with '$' and ends with      *)
(* '#'), the first part is the length field, and the frame is refused when  *)
(* the field is not len(data).                                              *)
parse_data ==
    /\ pk_packet # NoPacket
    /\ pk_parsed = "none"
    /\ LET text == decode(pk_packet.data)
           data == Str(text.ascii - 1, text.wide)
           data_len == pk_packet.field
       IN  pk_parsed' = IF data_len # len(data) THEN "mismatch" ELSE "length_ok"
    /\ UNCHANGED <<pk_call, pk_packet>>

PkInit ==
    /\ pk_call = [func_id |-> 0, args |-> <<>>]
    /\ pk_packet = NoPacket
    /\ pk_parsed = "none"

-----------------------------------------------------------------------------
(* The legacy parser: Protocol.parse_data of utils/protocol.py, on text *)

(* FuncID, config.py lines 18-22 *)
DATA_FACE_DETECT == 6
DATA_FACE_RECOGNITION == 8
DATA_STATUS == 10
DATA_REGISTER_RESULT == 11
DATA_ERROR == 99

(* float(s) succeeds, on the alphabet of the model: optional surrounding    *)
(* whitespace, optional sign, digits with at most one point among them.     *)
IsFloat(s) ==
    LET t == IntBody(s)
        points == {i \in 1..Len(t) : t[i] = "."}
    IN  /\ Cardinality(points) <= 1
        /\ \E i \in 1..Len(t) : t[i] \in Digits
        /\ \A i \in 1..Len(t) : t[i] \in Digits \cup {"."}

RECURSIVE Pow10(_)
Pow10(n) == IF n = 0 THEN 1 ELSE 10 * Pow10(n - 1)

(* float(s), as the fraction it denotes *)
FloatVal(s) ==
    LET t == IntBody(s)
        p == Find(t, ".")
        digits == IF p = 0 THEN t
                  ELSE SubSeq(t, 1, p - 1) \o SubSeq(t, p + 1, Len(t))
        places == IF p = 0 THEN 0 ELSE Len(t) - p
        n == NatVal(digits)
    IN  Frac(IF Head(Strip(s)) = "-" THEN 0 - n ELSE n, Pow10(places))

(* The result (func_id, dict) of the legacy parser. *)
Parsed(func_id, fields) == [type |-> "parsed", func_id |-> func_id, data |-> fields]

(* _parse_face_detect, lines 115-124; params[1] is Python's params[0] *)
_parse_face_detect(func_id, params) ==
    IF Len(params) < 4 THEN Malformed
    ELSE IF \E i \in 1..4 : ~IsInt(params[i]) THEN Raised("ValueError")
    ELSE Parsed(func_id, [x |-> IntVal(params[1]), y |-> IntVal(params[2]),
                          w |-> IntVal(params[3]), h |-> IntVal(params[4])])

(* _parse_face_recognition, lines 126-137 *)
_parse_face_recognition(func_id, params) ==
    IF Len(params) < 6 THEN Malformed
    ELSE IF \E i \in 1..4 : ~IsInt(params[i]) THEN Raised("ValueError")
    ELSE IF params[6] # << >> /\ ~IsFloat(params[6]) THEN Raised("ValueError")
    ELSE Parsed(func_id, [x |-> IntVal(params[1]), y |-> IntVal(params[2]),
                          w |-> IntVal(params[3]), h |-> IntVal(params[4]),
                          name |-> params[5],
                          score |-> IF params[6] # << >> THEN FloatVal(params[6])
                                    ELSE Whole(0)])

(* _parse_status, lines 139-146 *)
_parse_status(func_id, params) ==
    IF Len(params) < 2 THEN Malformed
    ELSE IF ~IsInt(params[1]) THEN Raised("ValueError")
    ELSE Parsed(func_id, [mode |-> IntVal(params[1]), message |-> params[2]])

(* _parse_register_result, lines 148-156 *)
_parse_register_result(func_id, params) ==
    IF Len(params) < 3 THEN Malformed
    ELSE Parsed(func_id, [success |-> params[1] = <<"1">>, name |-> params[2],
                          message |-> params[3]])

(* _parse_error, lines 158-165 *)
_parse_error(func_id, params) ==
    IF Len(params) < 2 THEN Malformed
    ELSE IF ~IsInt(params[1]) THEN Raised("ValueError")
    ELSE Parsed(func_id, [code |-> IntVal(params[1]), message |-> params[2]])

(* _parse_by_func_id, lines 95-113 *)
_parse_by_func_id(func_id, params) ==
    IF func_id = DATA_FACE_DETECT THEN _parse_face_detect(func_id, params)
    ELSE IF func_id = DATA_FACE_RECOGNITION
    THEN _parse_face_recognition(func_id, params)
    ELSE IF func_id = DATA_STATUS THEN _parse_status(func_id, params)
    ELSE IF func_id = DATA_REGISTER_RESULT
    THEN _parse_register_result(func_id, params)
    ELSE IF func_id = DATA_ERROR THEN _parse_error(func_id, params)
    ELSE Parsed(func_id, [raw_params |-> params])

(* The body of the try of parse_data, lines 67-89.  The input is a str or   *)
(* a bytes object; bytes are decoded (bytes that are not UTF-8 raise        *)
(* UnicodeDecodeError) and stripped, a str is taken as it is.               *)
parse_data_body(input) ==
    IF input.kind = "bad_bytes" THEN Raised("UnicodeDecodeError")
    ELSE
    LET data == IF input.kind = "bytes" THEN Strip(input.text) ELSE input.text
    IN  IF data = << >> \/ Head(data) # "$" \/ data[Len(data)] # "#" THEN Malformed
        ELSE LET content == SubSeq(data, 2, Len(data) - 1)
                 parts == Split(content, ",")
             IN  IF Len(parts) < 2 THEN Malformed
                 ELSE IF ~IsInt(parts[1]) \/ ~IsInt(parts[2])
                 THEN Raised("ValueError")
                 ELSE IF IntVal(parts[1]) # Len(data) THEN Malformed
                 ELSE _parse_by_func_id(IntVal(parts[2]),
                                        SubSeq(parts, 3, Len(parts)))

(* parse_data, lines 61-93: the try and its except Exception *)
Protocol_parse_data(input) ==
    LET result == parse_data_body(input)
    IN  IF result.type = "raised" THEN on_exception(result.exc, {"Exception"})
        ELSE result

(* str(n) of a non-negative int, as text *)
RECURSIVE str_text(_)
str_text(n) ==
    IF n < 10 THEN <<DigitChar(n)>>
    ELSE Append(str_text(n \div 10), DigitChar(n % 10))

(* _build_packet, lines 17-32, on text: the frame with the length field of  *)
(* the loop, a newline added, encoded.  The arguments are strs.             *)
Protocol_build_packet(func_id, args) ==
    LET data_str == Join(<<str_text(func_id)>> \o args)
        built    == build_loop(0, Len(data_str) + 3, Str(Len(data_str), 0))
    IN  [kind |-> "bytes",
         text |-> (<<"$">> \o str_text(built.field) \o <<",">> \o data_str)
                  \o <<"#", "\n">>]

(* The texts given to the parsers: up to MaxFields fields between the       *)
(* sentinels (and a newline) or without one of them.  The first field is RSP, a number,     *)
(* letters, or (written L) the exact length of the frame; the second a      *)
(* type or function id; the others numeric or not.                          *)
Field1 == {<<"R", "S", "P">>, <<"1", "6">>, <<"a", "b">>, <<"L">>}

Field2 == {<<"0", "6">>, <<"0", "8">>, <<"1", "0">>, <<"1", "1">>, <<"9", "9">>,
           <<"1">>, <<"x">>}

Field3 == {<<"1", "0">>, <<"O", "K">>, <<"P", "O", "N", "G">>, <<"x">>}

Field4 == {<<"2", "0">>, <<"y">>}

Field6 == {<<"4", "0">>, <<"-", "4">>, <<" ", "4">>}

Field8 == {<<"9", "5">>, <<"9", ".", "5">>, << >>}

Shapes == {"whole", "newline", "no_end", "no_start"}

Kinds == {"str", "bytes", "bad_bytes"}

Fields(f1, f2, f3, f4, f6, f8, k) ==
    LET all == <<f1, f2, f3, f4, <<"3", "0">>, f6, <<"b", "o", "b">>, f8>>
    IN  [i \in 1..k |-> IF i <= Len(all) THEN all[i] ELSE <<"z">>]

(* The frame of the fields; a first field L becomes the length of the whole *)
(* frame.                                                                   *)
Frame(fields, shape) ==
    LET rest == Join(Tail(fields))
        n == IF Len(fields) = 1 THEN 0 - 1 ELSE Len(rest)
        exact == build_loop(0, n + 3, Str(n, 0)).field
        first == IF fields[1] = <<"L">> THEN str_text(exact) ELSE fields[1]
        body == IF Len(fields) = 1 THEN first ELSE (first \o <<",">>) \o rest
    IN  IF shape = "whole" THEN (<<"$">> \o body) \o <<"#">>
        ELSE IF shape = "newline" THEN (<<"$">> \o body) \o <<"#", "\n">>
        ELSE IF shape = "no_end" THEN <<"$">> \o body
        ELSE body \o <<"#">>

(* The examples of the specification. *)
Examples ==
    { <<"$", "1", "6", ",", "0", "6", ",", "1", "0", ",", "2", "0", ",",
        "3", "0", ",", "4", "0", "#">>,
      <<"$", "R", "S", "P", ",", "1", "0", ",", "O", "K", ",", "1", ",", "6", "#">>,
      <<"$", "R", "S", "P", ",", "1", "8", ",", "P", "O", "N", "G", ",",
        "K", "2", "3", "0", "#">> }

(* No frame was built: the text parsed is an input. *)
NotBuilt == [dialect |-> "none", name |-> << >>, func_id |-> 0, args |-> << >>]

(* One call of parse_message. *)
Parse_message(text) ==
    /\ pa_parser = "none"
    /\ pa_parser' = "parse_message"
    /\ pa_input' = [kind |-> "str", text |-> text]
    /\ pa_result' = parse_message(text)
    /\ pa_built' = NotBuilt

(* One call of the legacy parse_data. *)
Parse_data(input) ==
    /\ pa_parser = "none"
    /\ pa_parser' = "parse_data"
    /\ pa_input' = input
    /\ pa_result' = Protocol_parse_data(input)
    /\ pa_built' = NotBuilt

(* A command is built in the keyword dialect and the frame parsed by        *)
(* parse_message: build_command gives bytes, which are decoded.             *)
RoundTrip_keyword(cmd, args) ==
    /\ pa_parser = "none"
    /\ pa_parser' = "parse_message"
    /\ pa_built' = [dialect |-> "keyword", name |-> cmd, func_id |-> 0,
                    args |-> args]
    /\ pa_input' = [kind |-> "str", text |-> build_command(cmd, args)]
    /\ pa_result' = parse_message(build_command(cmd, args))

(* A packet is built in the legacy dialect and its bytes parsed by          *)
(* parse_data.                                                              *)
RoundTrip_legacy(func_id, args) ==
    /\ pa_parser = "none"
    /\ pa_parser' = "parse_data"
    /\ pa_built' = [dialect |-> "legacy", name |-> << >>, func_id |-> func_id,
                    args |-> args]
    /\ pa_input' = Protocol_build_packet(func_id, args)
    /\ pa_result' = Protocol_parse_data(Protocol_build_packet(func_id, args))

PaInit ==
    /\ pa_parser = "none"
    /\ pa_input = [kind |-> "str", text |-> << >>]
    /\ pa_result = None
    /\ pa_built = NotBuilt

-----------------------------------------------------------------------------
(* Shutdown of the transport: K230Serial.disconnect (lines 80-95) and the   *)
(* reader thread in _read_loop (lines 97-119), statement by statement.      *)

(* The components these steps do not touch. *)
sd_others == <<fm_vars, em_vars, mt_vars, ws_vars, ct_vars, pk_vars, pa_vars, dr_vars,
               rg_vars>>

sd_rx_rest == <<rx_frames, rx_split, rx_pieces, k_callbacks>>

(* line 101: while self._running and self._serial *)
loop_test == k_running /\ k_serial # "none"

(* line 101: the reader thread tests the loop condition and goes on to     *)
(* line 103, or leaves the loop and ends (line 119): the thread that        *)
(* _read_thread refers to, if it still refers to one, is no longer alive.    *)
RL_Test ==
    /\ rd_pc = "test"
    /\ rd_pc' = IF loop_test THEN "read" ELSE "exited"
    /\ k_thread' = IF ~loop_test /\ k_thread = "alive" THEN "dead" ELSE k_thread
    /\ UNCHANGED <<k_serial, k_running, rx_buffer, rx_pending,
                   response_queue, k_log, rd_late, dc_pc, dc_mark>>
    /\ UNCHANGED <<sd_rx_rest, sc_vars, sd_others>>

(* lines 102-117, one pass of the loop body: the port has been closed       *)
(* (self._serial is None, or in_waiting raises on the closed port) and the   *)
(* exception is caught; or nothing waits and the thread sleeps; or the       *)
(* characters waiting are read, and _process_data dispatches their frames.   *)
(* rd_late counts the frames dispatched from a chunk that was read with the  *)
(* running flag already cleared.                                             *)
RL_Body ==
    /\ rd_pc = "read"
    /\ rd_pc' = "test"
    /\ IF k_serial # "open" \/ rx_pending = << >>
       THEN UNCHANGED <<rx_buffer, rx_pending, response_queue, k_log, rd_late>>
       ELSE LET r == _process_data(rx_buffer, rx_pending)
                d == Deliver(r.msgs, response_queue, k_callbacks, << >>)
            IN /\ rx_buffer' = Flatten(Messages(d.rest)) \o r.buf
               /\ rx_pending' = << >>
               /\ response_queue' = d.queue
               /\ k_log' = k_log \o d.log
               /\ rd_late' = rd_late + (IF k_running THEN 0 ELSE Len(d.log))
    /\ UNCHANGED <<k_serial, k_running, k_thread, dc_pc, dc_mark>>
    /\ UNCHANGED <<sd_rx_rest, sc_vars, sd_others>>

(* line 82: disconnect() clears the running flag.  With no reader thread   *)
(* (line 84) it goes on to close the port.                                   *)
DC_Clear ==
    /\ dc_pc = "idle"
    /\ k_running' = FALSE
    /\ dc_pc' = IF k_thread # "none" THEN "join" ELSE "close"
    /\ UNCHANGED <<k_serial, k_thread, rx_buffer, rx_pending, response_queue,
                   k_log, rd_pc, rd_late, dc_mark>>
    /\ UNCHANGED <<sd_rx_rest, sc_vars, sd_others>>

(* lines 85-86: join(timeout=2.0) returns when the reader thread has ended, *)
(* or when the two seconds are over whatever the reader thread does; then    *)
(* _read_thread is forgotten.                                                *)
DC_Join(timed_out) ==
    /\ dc_pc = "join"
    /\ timed_out \/ rd_pc = "exited"
    /\ k_thread' = "none"
    /\ dc_pc' = "close"
    /\ UNCHANGED <<k_serial, k_running, rx_buffer, rx_pending, response_queue,
                   k_log, rd_pc, rd_late, dc_mark>>
    /\ UNCHANGED <<sd_rx_rest, sc_vars, sd_others>>

(* lines 88-92: the port is closed; what close raises is swallowed.  Until  *)
(* line 93 _serial still refers to the closed port.                          *)
DC_Close ==
    /\ dc_pc = "close"
    /\ k_serial' = IF k_serial = "none" THEN "none" ELSE "closed"
    /\ dc_pc' = "forget"
    /\ UNCHANGED <<k_running, k_thread, rx_buffer, rx_pending, response_queue,
                   k_log, rd_pc, rd_late, dc_mark>>
    /\ UNCHANGED <<sd_rx_rest, sc_vars, sd_others>>

(* lines 93-95: the port is forgotten and disconnect() returns.  dc_mark is *)
(* the number of send_command calls that had entered their critical section  *)
(* by then.                                                                  *)
DC_Forget ==
    /\ dc_pc = "forget"
    /\ k_serial' = "none"
    /\ dc_pc' = "done"
    /\ dc_mark' = sc_calls
    /\ UNCHANGED <<k_running, k_thread, rx_buffer, rx_pending, response_queue,
                   k_log, rd_pc, rd_late>>
    /\ UNCHANGED <<sd_rx_rest, sc_vars, sd_others>>

(* The reader thread is at its loop test, disconnect() has not been called. *)
SdInit ==
    /\ rd_pc = "test"
    /\ rd_late = 0
    /\ dc_pc = "idle"
    /\ dc_mark = 0

-----------------------------------------------------------------------------
(* The door actions of the controller statement by statement, with the      *)
(* threads that run them: _open_door in the reader thread (a face success,   *)
(* line 175) and in the thread of the socketio client (an OPEN command, line *)
(* 200), _close_door in the thread of the socketio client (a CLOSE command,  *)
(* line 204) and in the thread of a threading.Timer (line 266), and the      *)
(* worker threads that call rotate.                                          *)
DoorThreads == {"reader", "sio"}

(* The components these steps do not touch. *)
dr_others == <<fm_vars, rx_vars, sc_vars, em_vars, ws_vars, pk_vars, pa_vars, sd_vars,
               rg_vars>>

ct_fixed == <<ct_main, ct_running, ct_timer_thread, ct_on_command, open_angle,
              ct_start, ct_late>>

(* The callback or the command is delivered to thread t: lines 162-175 in   *)
(* the reader thread (callbacks set), lines 75-82 of websocket_client.py in  *)
(* the thread of the connected socketio client.                              *)
Delivers(t) ==
    IF t = "reader" THEN k_thread = "alive" /\ k_callbacks.rec
    ELSE ws_connected /\ ws_sio # "none" /\ ct_on_command

(* _open_door, lines 250-251: the timer _close_timer refers to is cancelled. *)
OD_Cancel(t) ==
    /\ od_pc[t] = "idle"
    /\ Delivers(t)
    /\ ct_handled < MaxOpens
    /\ ct_handled' = ct_handled + 1
    /\ ct_successes' = IF t = "reader" THEN ct_successes + 1 ELSE ct_successes
    /\ ct_timers' = cancel(ct_timers, close_timer)
    /\ od_pc' = [od_pc EXCEPT ![t] = "status"]
    /\ UNCHANGED <<door_status, close_timer, ct_workers, ct_writes, ct_long,
                   ws_emitted, ct_escaped, dr_rot>>
    /\ UNCHANGED <<ct_fixed, mt_vars, dr_others>>

(* _open_door, lines 253-254: the state is set and reported. *)
OD_Status(t) ==
    /\ od_pc[t] = "status"
    /\ door_status' = "OPEN"
    /\ ct_writes' = ct_writes \cup {[thread |-> t, value |-> "OPEN"]}
    /\ report(1, FALSE)
    /\ od_pc' = [od_pc EXCEPT ![t] = "worker"]
    /\ UNCHANGED <<close_timer, ct_timers, ct_workers, ct_long, ct_handled,
                   ct_successes, dr_rot>>
    /\ UNCHANGED <<ct_fixed, mt_vars, dr_others>>

(* _open_door, lines 257-261: the worker thread of the opening rotation is  *)
(* started.                                                                  *)
OD_Worker(t) ==
    /\ od_pc[t] = "worker"
    /\ ct_workers' = Append(ct_workers, Worker("rotate", t, TRUE))
    /\ od_pc' = [od_pc EXCEPT ![t] = "timer"]
    /\ UNCHANGED <<door_status, close_timer, ct_timers, ct_writes, ct_long,
                   ws_emitted, ct_escaped, ct_handled, ct_successes, dr_rot>>
    /\ UNCHANGED <<ct_fixed, mt_vars, dr_others>>

(* _open_door, lines 264-268: a new timer is made, kept in _close_timer and *)
(* started; the caller (line 181 or 201) reports.                            *)
OD_Timer(t) ==
    /\ od_pc[t] = "timer"
    /\ ct_timers' = Append(ct_timers, "pending")
    /\ close_timer' = Len(ct_timers) + 1
    /\ report(1, FALSE)
    /\ od_pc' = [od_pc EXCEPT ![t] = "idle"]
    /\ UNCHANGED <<door_status, ct_workers, ct_writes, ct_long, ct_handled,
                   ct_successes, dr_rot>>
    /\ UNCHANGED <<ct_fixed, mt_vars, dr_others>>

(* A CLOSE command, lines 203-205 and 270-282, in the thread of the         *)
(* socketio client.                                                          *)
CD_Command ==
    /\ od_pc["sio"] = "idle"
    /\ Delivers("sio")
    /\ ct_handled < MaxOpens
    /\ ct_handled' = ct_handled + 1
    /\ _close_door("sio")
    /\ report(2, FALSE)
    /\ UNCHANGED <<close_timer, ct_timers, ct_long, ct_successes, od_pc, dr_rot>>
    /\ UNCHANGED <<ct_fixed, mt_vars, dr_others>>

(* The auto-close timer with number id fires, lines 264-268 and 270-282. *)
CD_Timer(id) ==
    /\ ct_timers[id] = "pending"
    /\ ct_timers' = [ct_timers EXCEPT ![id] = "fired"]
    /\ _close_door("close")
    /\ report(1, FALSE)
    /\ UNCHANGED <<close_timer, ct_long, ct_handled, ct_successes, od_pc, dr_rot>>
    /\ UNCHANGED <<ct_fixed, mt_vars, dr_others>>

(* The worker thread of ct_workers[i] runs as thread t and calls rotate      *)
(* (lines 257-260 and 278-281; motor.py lines 61-74).  dr_rot records which  *)
(* rotation of the motor is the one of which worker.                         *)
WK_Rotate(i, t) ==
    /\ ct_workers[i].state = "started"
    /\ ct_workers[i].target = "rotate"
    /\ ct_workers' = [ct_workers EXCEPT ![i].state = "done"]
    /\ rotate(t, ct_workers[i].angle, ct_workers[i].cw)
    /\ ct_long' = ct_long \cup {[thread |-> ct_workers[i].thread, op |-> "rotate"]}
    /\ dr_rot' = Append(dr_rot, [worker |-> i, rot |-> Len(mt_hist) + 1])
    /\ UNCHANGED <<door_status, close_timer, ct_timers, ct_writes, ws_emitted,
                   ct_escaped, ct_handled, ct_successes, od_pc>>
    /\ UNCHANGED <<ct_fixed, dr_others>>

(* Neither thread is in _open_door. *)
DrInit ==
    /\ od_pc = [t \in DoorThreads |-> "idle"]
    /\ dr_rot = << >>

(* The controller after start() has returned True (lines 63-110) and        *)
(* SET_CONFIG has set the opening angle to one degree (lines 227-229).       *)
CtStarted ==
    /\ ct_main = "started"
    /\ ct_running = TRUE
    /\ ct_timer_thread = "alive"
    /\ door_status = "CLOSED"
    /\ close_timer = 0
    /\ ct_timers = << >>
    /\ ct_on_command = TRUE
    /\ open_angle = 1 * 64
    /\ ct_workers = << >>
    /\ ct_writes = {}
    /\ ct_long = {[thread |-> "main", op |-> "ping"],
                  [thread |-> "main", op |-> "start_function"]}
    /\ ws_emitted = 0
    /\ ct_escaped = FALSE
    /\ ct_handled = 0
    /\ ct_successes = 0
    /\ ct_start = "none"
    /\ ct_late = {}

(* The remote channel after the WS-Connect thread has connected it. *)
WsConnected ==
    /\ ws_should_run = TRUE
    /\ ws_connected = TRUE
    /\ ws_sio = "client"
    /\ ws_lock = "none"
    /\ ws_rt = "none"
    /\ ws_pc = [t \in Connectors |-> IF t \in Loops THEN "off" ELSE "done"]
    /\ ws_sched = [t \in Schedulers |-> "idle"]
    /\ rl_retry = [l \in Loops |-> 0]
    /\ rl_delays = [l \in Loops |-> << >>]
    /\ ws_runs = 0
    /\ md_pc = "idle"
    /\ ws_drops = 0
    /\ ws_late = {}

-----------------------------------------------------------------------------
(* Face registration: a REGISTER_FACE command (controller.py lines 207-216) *)
(* starts a worker thread in _register_face (lines 286-307), which calls     *)
(* stop_function, register_face and start_function of the transport          *)
(* (k230_serial.py lines 259-280), each one send_command (lines 190-238).    *)
UserIds == {<< >>, <<"u", "1">>, <<"u", "2">>}

WorkerNames == <<"w1", "w2", "w3", "w4">>

(* The components these steps do not touch. *)
rg_others == <<fm_vars, em_vars, mt_vars, ws_vars, pk_vars, pa_vars, sd_vars, dr_vars>>

rg_rx_rest == <<k_serial, k_running, rx_buffer, rx_pending, k_callbacks, k_log,
                rx_frames, rx_split, rx_pieces, k_thread>>

rg_sc_rest == <<sc_pc, sc_call, sc_done, dev_pending, dev_events>>

rg_ct_rest == <<ct_main, ct_running, ct_timer_thread, door_status, close_timer,
                ct_timers, ct_on_command, open_angle, ct_writes, ct_long,
                ct_successes, ct_start, ct_late>>

(* The command of each step of _register_face: lines 292, 296 and 307. *)
RegCommand(step, user_id) ==
    CASE step = "stop" -> [cmd |-> <<"S", "T", "O", "P">>, args |-> << >>]
      [] step = "regcam" -> [cmd |-> <<"R", "E", "G", "C", "A", "M">>,
                             args |-> <<user_id>>]
      [] step = "start" -> [cmd |-> <<"S", "T", "A", "R", "T">>,
                            args |-> << <<"8">> >>]

NextStep(step) ==
    CASE step = "stop" -> "regcam" [] step = "regcam" -> "start"
      [] step = "start" -> "done"

(* _on_ws_command, lines 207-216: with a user_id the worker thread of the   *)
(* registration is started, without one the failure is reported.             *)
RG_Command(user_id) ==
    /\ Delivers("sio")
    /\ ct_handled < MaxOpens
    /\ ct_handled' = ct_handled + 1
    /\ IF user_id # << >>
       THEN /\ ct_workers' = Append(ct_workers, Worker("_register_face", "sio", FALSE))
            /\ rg_regs' = Append(rg_regs, [user_id |-> user_id, step |-> "stop",
                                           locked |-> FALSE, calls |-> << >>,
                                           success |-> FALSE])
            /\ UNCHANGED <<rg_no_id, ws_emitted, ct_escaped>>
       ELSE /\ report(1, FALSE)
            /\ rg_no_id' = rg_no_id + 1
            /\ UNCHANGED <<ct_workers, rg_regs>>
    /\ UNCHANGED <<k_lock, sc_calls, tx, response_queue>>
    /\ UNCHANGED <<rg_rx_rest, rg_sc_rest, rg_ct_rest, rg_others>>

(* The worker of registration r calls the transport (lines 292, 296, 307)   *)
(* and send_command takes the lock, finds the transport connected and the    *)
(* reader alive, and drains the queue (k230_serial.py lines 197-216).  The   *)
(* first step reports the start of the registration (line 289).              *)
RG_Enter(r) ==
    /\ rg_regs[r].step # "done"
    /\ ~rg_regs[r].locked
    /\ k_serial = "open" /\ k_thread = "alive"
    /\ k_acquire(WorkerNames[r])
    /\ sc_calls' = sc_calls + 1
    /\ rg_regs' = [rg_regs EXCEPT ![r].locked = TRUE,
                                  ![r].calls = Append(@, sc_calls + 1)]
    /\ response_queue' = << >>
    /\ IF rg_regs[r].step = "stop"
       THEN report(1, FALSE)
       ELSE UNCHANGED <<ws_emitted, ct_escaped>>
    /\ UNCHANGED <<tx, ct_workers, ct_handled, rg_no_id>>
    /\ UNCHANGED <<rg_rx_rest, rg_sc_rest, rg_ct_rest, rg_others>>

(* send_command, lines 218-238: the frame is written, the call waits for    *)
(* the response (status OK or ERR) or for the timeout ("none") and releases  *)
(* the lock; register_face is True for a response of status OK (lines        *)
(* 277-280), and its result is reported (lines 298-303).                     *)
RG_Send(r, status) ==
    /\ rg_regs[r].locked
    /\ LET reg == rg_regs[r]
           command == RegCommand(reg.step, reg.user_id)
       IN /\ tx' = Append(tx, [call |-> reg.calls[Len(reg.calls)],
                               frame |-> build_command(command.cmd, command.args),
                               returned |-> Len(sc_done)])
          /\ rg_regs' = [rg_regs EXCEPT
                            ![r].locked = FALSE,
                            ![r].step = NextStep(reg.step),
                            ![r].success = IF reg.step = "regcam"
                                           THEN status = "OK" ELSE @]
          /\ IF reg.step = "regcam"
             THEN report(1, FALSE)
             ELSE UNCHANGED <<ws_emitted, ct_escaped>>
    /\ k_release
    /\ UNCHANGED <<sc_calls, response_queue, ct_workers, ct_handled, rg_no_id>>
    /\ UNCHANGED <<rg_rx_rest, rg_sc_rest, rg_ct_rest, rg_others>>

(* No REGISTER_FACE command has been handled. *)
RgInit ==
    /\ rg_regs = << >>
    /\ rg_no_id = 0

-----------------------------------------------------------------------------
(* Counting over the history *)
Entries(kind, w) ==
    {i \in 1..Len(calls) : calls[i].kind = kind /\ calls[i].wid = w}

Successes(w) == Cardinality(Entries("success", w))

Rejects(w) == Cardinality(Entries("reject", w))

Qualifying(w) == Cardinality({i \in Entries("rec", w) : calls[i].n = 1})

Failing(w) == Cardinality({i \in Entries("rec", w) : calls[i].n = 0})

(* C1: every window has had its success callback invoked exactly once if a *)
(* qualifying recognition was evaluated in it and never otherwise, however  *)
(* many qualifying recognitions it received; for the current window this is *)
(* exactly when success_reported is true.                                   *)
C1_SuccessOncePerWindow ==
    /\ \A w \in 1..wid :
         Successes(w) = (IF Qualifying(w) >= 1 THEN 1 ELSE 0)
    /\ window.active =>
         Successes(wid) = (IF window.success_reported THEN 1 ELSE 0)
    /\ Successes(0) = 0

C1_Witness ==
    /\ window.active
    /\ window.success_reported
    /\ Qualifying(wid) >= 2
    /\ Successes(wid) = 1
    /\ fm_lock = "none"

(* C2: when check_timeout finds the window active and expired, with k >= 1 *)
(* failing recognitions and no qualifying one evaluated in it, it invokes   *)
(* on_reject once, with attempt count k, and that window has had no reject  *)
(* before; a check_timeout that finds anything else invokes nothing.        *)
C2_TimerStep ==
    /\ fm_pc.timer = "ct_check"
    /\ fm_pc'.timer # "ct_check"

C2_RejectOnTimeout ==
    [][ C2_TimerStep =>
          IF /\ window.active
             /\ now - window.start_time >= FACE_WINDOW_SECONDS
             /\ Failing(wid) >= 1
             /\ Qualifying(wid) = 0
          THEN /\ Rejects(wid) = 0
               /\ calls' = Append(calls,
                     [kind |-> "reject", wid |-> wid, by |-> "timer",
                      n |-> Failing(wid), user |-> "",
                      rec |-> window.last_recognition])
          ELSE calls' = calls ]_vars

C2_Witness ==
    /\ fm_pc.timer = "ct_check"
    /\ window.active
    /\ \E i \in 1..Len(calls) :
         /\ calls[i].kind = "reject"
         /\ calls[i].by = "timer"
         /\ calls[i].n = 2
         /\ calls[i].wid < wid

(* C3: on_reject is invoked at most once per window, whichever of the      *)
(* reader thread and the timer thread reports the expired window.           *)
C3_RejectAtMostOnce == \A w \in 0..wid : Rejects(w) <= 1

C3_Witness ==
    /\ fm_lock = "reader"
    /\ fm_pc.reader = "rr_start"
    /\ fm_pc.timer = "idle"
    /\ window.active
    /\ _is_window_expired(window, now)
    /\ Rejects(wid) = 1

(* C11: whenever no thread is inside a critical section of the manager,   *)
(* an inactive window is at its reset values: no failure counted, no        *)
(* success reported, no user and no recognition remembered.                 *)
C11_InactiveIsReset ==
    (fm_lock = "none" /\ ~window.active) =>
        /\ window.failure_count = 0
        /\ window.success_reported = FALSE
        /\ window.last_success_user = ""
        /\ window.last_recognition = << >>

C11_Witness ==
    /\ fm_lock = "none"
    /\ ~window.active
    /\ wid >= 1
    /\ Failing(wid) >= 1
    /\ Qualifying(wid) >= 1

(* C13: on_face_detected fires no callback; on an active window, expired or *)
(* not, it leaves the window as it is, and on an idle manager it opens a    *)
(* window that starts now with reset counters.                              *)
C13_DetectionStep ==
    /\ fm_pc.reader = "fd"
    /\ fm_pc'.reader = "idle"

C13_DetectionOpensFromIdleOnly ==
    [][ C13_DetectionStep =>
          /\ calls' = calls
          /\ IF window.active
             THEN window' = window
             ELSE window' = [ start_time        |-> now,
                              active            |-> TRUE,
                              success_reported  |-> FALSE,
                              failure_count     |-> 0,
                              last_success_user |-> "",
                              last_recognition  |-> << >> ] ]_vars

C13_Witness ==
    /\ fm_pc.reader = "fd"
    /\ window.active
    /\ now - window.start_time >= FACE_WINDOW_SECONDS
    /\ window.failure_count >= 1

(* C14: when on_recognition_result finds the window active and expired, the *)
(* reject of that window (fired iff it had no success and at least one      *)
(* failure, with its failure count) is the last callback before the fresh   *)
(* window is opened; the event is evaluated in a window that has had no     *)
(* reject, callbacks and events are in the order of their windows, and a    *)
(* window that has received one event counts that event alone.              *)
C14_ExpiredRejectedBeforeEvaluation ==
    /\ (fm_pc.reader = "rr_start" /\ window.active) =>
          IF ~window.success_reported /\ window.failure_count > 0
          THEN /\ Rejects(wid) = 1
               /\ calls[Len(calls)] =
                     [kind |-> "reject", wid |-> wid, by |-> "reader",
                      n |-> window.failure_count, user |-> "",
                      rec |-> window.last_recognition]
          ELSE Rejects(wid) = 0
    /\ fm_pc.reader = "rr_eval" =>
          /\ window.active
          /\ Rejects(wid) = 0
          /\ Entries("rec", wid) = {} =>
                /\ window.failure_count = 0
                /\ ~window.success_reported
                /\ window.last_recognition = << >>
    /\ \A i, j \in 1..Len(calls) : i < j => calls[i].wid <= calls[j].wid
    /\ (window.active /\ Cardinality(Entries("rec", wid)) = 1) =>
          /\ window.failure_count = Failing(wid)
          /\ window.failure_count \in {0, 1}
          /\ window.success_reported <=> (Qualifying(wid) = 1)

C14_Witness ==
    /\ fm_pc.reader = "idle"
    /\ window.active
    /\ wid >= 2
    /\ Cardinality(Entries("rec", wid)) = 1
    /\ \E i \in 1..Len(calls) :
         /\ calls[i].kind = "reject"
         /\ calls[i].by = "reader"
         /\ calls[i].wid = wid - 1
         /\ calls[i].n = 2

(* C15: no window has both its success and its reject callback invoked,    *)
(* while failure_count counts every failing recognition of the window, those *)
(* after the success included.                                               *)
C15_NeverSuccessAndReject ==
    /\ \A w \in 0..wid : ~(Successes(w) >= 1 /\ Rejects(w) >= 1)
    /\ window.active => window.failure_count = Failing(wid)

C15_Witness ==
    /\ ~window.active
    /\ fm_lock = "none"
    /\ wid >= 1
    /\ Rejects(wid) = 0
    /\ \E i \in Entries("success", wid) :
         \E j \in Entries("rec", wid) : j > i /\ calls[j].n = 0

-----------------------------------------------------------------------------
(* The face decision state machine on its own *)
Init == FaceInit /\ KInit /\ SCInit /\ EmIdle /\ MotorInit /\ RgInit /\ DrInit /\ SdInit /\ PaInit /\ PkInit /\ CtInit /\ WsInit

FaceNext ==
    \/ FD_Enter /\ UNCHANGED not_fm
    \/ FD_Body /\ UNCHANGED not_fm
    \/ \E rec \in Recognitions : RR_Enter(rec) /\ UNCHANGED not_fm
    \/ RR_Expiry /\ UNCHANGED not_fm
    \/ RR_Start /\ UNCHANGED not_fm
    \/ RR_Eval /\ UNCHANGED not_fm
    \/ CT_Enter /\ UNCHANGED not_fm
    \/ CT_Check /\ UNCHANGED not_fm
    \/ CT_Reset /\ UNCHANGED not_fm
    \/ Tick /\ UNCHANGED not_fm

SpecFace == Init /\ [][FaceNext]_vars

-----------------------------------------------------------------------------
(* The face decision state machine before the first detection event:       *)
(* recognition events and timeout checks only.                              *)
NoDetectionNext ==
    \/ \E rec \in Recognitions : RR_Enter(rec) /\ UNCHANGED not_fm
    \/ RR_Expiry /\ UNCHANGED not_fm
    \/ RR_Start /\ UNCHANGED not_fm
    \/ RR_Eval /\ UNCHANGED not_fm
    \/ CT_Enter /\ UNCHANGED not_fm
    \/ CT_Check /\ UNCHANGED not_fm
    \/ CT_Reset /\ UNCHANGED not_fm
    \/ Tick /\ UNCHANGED not_fm

SpecNoDetection == Init /\ [][NoDetectionNext]_vars

(* C12: as long as no detection event has been delivered, the manager is   *)
(* idle whenever no thread is inside a critical section, and neither the    *)
(* success nor the reject callback has been invoked.                        *)
C12_IdleUntilDetection ==
    /\ fm_lock = "none" => ~window.active
    /\ \A i \in 1..Len(calls) : calls[i].kind \notin {"success", "reject"}

-----------------------------------------------------------------------------
(* The timer thread of SmartDoorController._timer_loop against a window    *)
(* that receives no further recognition events.  The window starts idle or  *)
(* as on_recognition_result can have left it: open since time 0, with up to *)
(* MaxRecs events evaluated in it.                                          *)
OpenWindows ==
    { [ start_time        |-> 0,
        active            |-> TRUE,
        success_reported  |-> (q # << >>),
        failure_count     |-> f,
        last_success_user |-> (IF q # << >> THEN q[1].name ELSE ""),
        last_recognition  |-> l ] :
      <<f, q, l>> \in
        { x \in (0..MaxRecs) \X {<< >>, <<[name |-> "bob", score |-> 95]>>}
                 \X {<< >>, <<[name |-> "bob", score |-> 95]>>,
                      <<[name |-> "unknown", score |-> 0]>>} :
            /\ x[1] + Len(x[2]) <= MaxRecs
            /\ (x[3] = << >>) <=> (x[1] = 0 /\ x[2] = << >>)
            /\ (x[1] = 0 /\ x[2] # << >>) => x[3] = x[2]
            /\ (x[1] > 0 /\ x[2] = << >>) => x[3] # <<[name |-> "bob", score |-> 95]>> } }

TimerInit ==
    /\ window \in OpenWindows \cup {RecognitionWindow}
    /\ fm_lock = "none"
    /\ now = 0
    /\ fm_pc = [reader |-> "idle", timer |-> "idle"]
    /\ fm_arg = NoArg
    /\ calls = << >>
    /\ wid = IF window.active THEN 1 ELSE 0
    /\ cb_raises \in BOOLEAN
    /\ fm_escaped = FALSE
    /\ KInit
    /\ SCInit
    /\ EmIdle
    /\ MotorInit /\ RgInit /\ DrInit /\ SdInit /\ PaInit /\ PkInit /\ CtInit /\ WsInit

TimerNext ==
    \/ FD_Enter /\ UNCHANGED not_fm
    \/ FD_Body /\ UNCHANGED not_fm
    \/ CT_Enter /\ UNCHANGED not_fm
    \/ CT_Check /\ UNCHANGED not_fm
    \/ CT_Reset /\ UNCHANGED not_fm
    \/ Tick /\ UNCHANGED not_fm

(* The clock advances; a thread inside a critical section goes on; the      *)
(* timer loop calls check_timeout every 0.5 s and gets the mutex, which the  *)
(* reader thread holds only for the body of on_face_detected.                *)
TimerFairness ==
    /\ WF_vars(Tick /\ UNCHANGED not_fm)
    /\ WF_vars(FD_Body /\ UNCHANGED not_fm)
    /\ SF_vars(CT_Enter /\ UNCHANGED not_fm)
    /\ WF_vars(CT_Check /\ UNCHANGED not_fm)
    /\ WF_vars(CT_Reset /\ UNCHANGED not_fm)

SpecTimer == TimerInit /\ [][TimerNext]_vars /\ TimerFairness

(* C16: check_timeout leaves the window and the callbacks alone unless the *)
(* window is active and expired; then it fires on_reject iff no success was *)
(* reported and failure_count > 0, and resets the window to idle.  So, with *)
(* the timer running and no recognition events, every window that expires   *)
(* within the time followed becomes idle.                                    *)
C16_CheckStep ==
    /\ fm_pc.timer = "ct_check"
    /\ fm_pc'.timer # "ct_check"

C16_ResetStep ==
    /\ fm_pc.timer = "ct_reset"
    /\ fm_pc'.timer # "ct_reset"

C16_TimeoutReturnsToIdle ==
    /\ [][ /\ C16_CheckStep =>
               /\ window' = window
               /\ IF window.active /\ now - window.start_time >= FACE_WINDOW_SECONDS
                  THEN /\ fm_pc'.timer = "ct_reset"
                       /\ calls' = calls \o
                            (IF ~window.success_reported /\ window.failure_count > 0
                             THEN <<[kind |-> "reject", wid |-> wid, by |-> "timer",
                                     n |-> window.failure_count, user |-> "",
                                     rec |-> window.last_recognition]>>
                             ELSE << >>)
                  ELSE /\ fm_pc'.timer = "idle"
                       /\ fm_lock' = "none"
                       /\ calls' = calls
           /\ C16_ResetStep =>
               /\ ~window'.active
               /\ fm_pc'.timer = "idle"
               /\ fm_lock' = "none"
               /\ calls' = calls ]_vars
    /\ (window.active /\ window.start_time + FACE_WINDOW_SECONDS <= MaxTime)
          ~> ~window.active

C16_Witness ==
    /\ ~window.active
    /\ fm_pc.timer = "idle"
    /\ Len(calls) = 1
    /\ calls[1].kind = "reject"
    /\ calls[1].by = "timer"
    /\ calls[1].n = 2

-----------------------------------------------------------------------------
(* The face decision state machine with callbacks that raise on every call *)
RaisingInit ==
    /\ window = RecognitionWindow
    /\ fm_lock = "none"
    /\ now = 0
    /\ fm_pc = [reader |-> "idle", timer |-> "idle"]
    /\ fm_arg = NoArg
    /\ calls = << >>
    /\ wid = 0
    /\ cb_raises = TRUE
    /\ fm_escaped = FALSE
    /\ KInit
    /\ SCInit
    /\ EmIdle
    /\ MotorInit /\ RgInit /\ DrInit /\ SdInit /\ PaInit /\ PkInit /\ CtInit /\ WsInit

SpecFaceRaising == RaisingInit /\ [][FaceNext]_vars

(* C17: with on_success and on_reject raising, no exception leaves a method *)
(* of the manager; the mutex is held exactly by a thread that is inside a    *)
(* method; success_reported is true exactly when the success callback of the *)
(* window was invoked; a window whose reject was invoked is reset or         *)
(* replaced by the method that invoked it; and later events are handled as   *)
(* ever: each window has at most one success and at most one reject, and its *)
(* failure count is the number of its failing recognitions.                  *)
C17_CallbackFailureContained ==
    cb_raises =>
      /\ ~fm_escaped
      /\ fm_lock = "reader" <=> fm_pc.reader # "idle"
      /\ fm_lock = "timer" <=> fm_pc.timer # "idle"
      /\ window.active => (window.success_reported <=> Successes(wid) = 1)
      /\ (window.active /\ Rejects(wid) >= 1) =>
            \/ fm_pc.reader = "rr_start"
            \/ fm_pc.timer = "ct_reset"
      /\ \A w \in 0..wid : Successes(w) <= 1 /\ Rejects(w) <= 1
      /\ \A w \in 1..wid : (Successes(w) = 1) <=> (Qualifying(w) >= 1)
      /\ window.active => window.failure_count = Failing(wid)

C17_Witness ==
    /\ cb_raises
    /\ fm_lock = "none"
    /\ window.active
    /\ window.success_reported
    /\ wid >= 2
    /\ \E i \in 1..Len(calls) :
         /\ calls[i].kind = "reject"
         /\ calls[i].by = "timer"
         /\ calls[i].wid < wid

-----------------------------------------------------------------------------
(* The receive path on its own *)
InitRx == FaceInit /\ RxInit /\ SCInit /\ EmIdle /\ MotorInit /\ RgInit /\ DrInit /\ SdInit /\ PaInit /\ PkInit /\ CtInit /\ WsInit

NextRx ==
    \E n \in 1..Len(rx_pending) : ReadChunk(n) /\ UNCHANGED not_rx

SpecRx == InitRx /\ [][NextRx]_vars

-----------------------------------------------------------------------------
(* The transport with its callers and the coprocessor: either as          *)
(* constructed (never connected), or as SmartDoorController.start leaves it: *)
(* connected, the reader thread running, the callbacks set.                  *)
ConnectedInit ==
    /\ k_serial = "open"
    /\ k_running = TRUE
    /\ k_thread = "alive"
    /\ rx_buffer = << >>
    /\ rx_pending = << >>
    /\ response_queue = << >>
    /\ k_callbacks = [det |-> TRUE, rec |-> TRUE]
    /\ k_log = << >>
    /\ rx_frames = << >>
    /\ rx_split = FALSE
    /\ rx_pieces = << >>

InitCmd == FaceInit /\ (KInit \/ ConnectedInit) /\ SCInit /\ EmIdle /\ MotorInit /\ RgInit /\ DrInit /\ SdInit /\ PaInit /\ PkInit /\ CtInit /\ WsInit

NextCmd ==
    \/ \E t \in Threads : SC_Call(t) /\ UNCHANGED not_cmd
    \/ \E t \in Threads : SC_Enter(t) /\ UNCHANGED not_cmd
    \/ \E t \in Threads : SC_CheckDrain(t) /\ UNCHANGED not_cmd
    \/ \E t \in Threads, io \in {"ok", "write_raises", "flush_raises"} :
          SC_Write(t, io) /\ UNCHANGED not_cmd
    \/ \E t \in Threads : SC_Receive(t) /\ UNCHANGED not_cmd
    \/ \E t \in Threads : SC_Timeout(t) /\ UNCHANGED not_cmd
    \/ \E j \in dev_pending : Dev_Respond(j) /\ UNCHANGED not_cmd
    \/ \E p \in {2, 3} : Dev_Event(p) /\ UNCHANGED not_cmd

SpecCmd == InitCmd /\ [][NextCmd]_vars

-----------------------------------------------------------------------------
(* The frames of the serial line's whole text, processed as one chunk. *)
WholeStream == scan(Text(rx_pieces), << >>)

IsPrefix(a, b) == Len(a) <= Len(b) /\ a = SubSeq(b, 1, Len(a))

(* C8: however the text is split into chunks, the messages handed to the   *)
(* codec are, in order, those of the whole text processed as one chunk: a   *)
(* prefix of them while text is still to come, all of them (and the same    *)
(* buffer left) once the last chunk is processed.                           *)
C8_ChunkingIndependent ==
    /\ IsPrefix(rx_frames, Messages(WholeStream.msgs))
    /\ rx_pending = << >> =>
         /\ rx_frames = Messages(WholeStream.msgs)
         /\ rx_buffer = WholeStream.buf

C8_Witness ==
    /\ rx_pending = << >>
    /\ rx_split
    /\ Len(rx_frames) = 2
    /\ Len(k_log) = 2

(* C9: between _process_data calls the receive buffer is empty or begins   *)
(* with '$' and holds no '#'.                                               *)
C9_BufferShape ==
    \/ rx_buffer = << >>
    \/ Head(rx_buffer) = "$" /\ Find(rx_buffer, "#") = 0

C9_Witness ==
    /\ rx_pieces[1] \in {6, 8}
    /\ Len(rx_buffer) >= 2
    /\ rx_pending # << >>

(* What each piece is: a well-formed frame with its value, a complete      *)
(* malformed frame, text without a sentinel, a lone '$', a lone '#'.        *)
PieceKind(i) ==
    CASE i \in {1, 2, 3} -> "good"
      [] i \in {4, 5} -> "bad"
      [] i = 6 -> "junk"
      [] i = 7 -> "start"
      [] i = 8 -> "end"

GoodValue(i) ==
    CASE i = 1 -> [type |-> "response", length |-> 1, status |-> "OK", data |-> << >>]
      [] i = 2 -> [type |-> "face_detection", x |-> 1, y |-> 2, w |-> 3, h |-> 4]
      [] i = 3 -> [type |-> "face_recognition", x |-> 1, y |-> 2, w |-> 3, h |-> 4,
                   name |-> <<"b">>, score |-> 95]

(* The values that must be dispatched for a text: those of the well-formed *)
(* frames that do not follow an unclosed '$'.                               *)
RECURSIVE Expected(_, _)
Expected(ps, open) ==
    IF ps = << >> THEN << >>
    ELSE LET k == PieceKind(Head(ps)) IN
         IF k = "good"
         THEN (IF open THEN << >> ELSE <<GoodValue(Head(ps))>>)
              \o Expected(Tail(ps), FALSE)
         ELSE IF k = "junk" THEN Expected(Tail(ps), open)
         ELSE Expected(Tail(ps), k = "start")

DispatchedValues == [i \in 1..Len(k_log) |-> k_log[i].parsed]

(* C10: a complete malformed frame is dropped and nothing is dispatched    *)
(* for it, and the scan goes on after its '#': the values dispatched are    *)
(* exactly those of the well-formed frames of the text, in order.           *)
C10_MalformedDropped ==
    /\ IsPrefix(DispatchedValues, Expected(rx_pieces, FALSE))
    /\ rx_pending = << >> => DispatchedValues = Expected(rx_pieces, FALSE)

C10_Witness ==
    /\ rx_pending = << >>
    /\ Len(rx_pieces) = 2
    /\ rx_pieces[1] \in {4, 5}
    /\ rx_pieces[2] \in {1, 2, 3}
    /\ ~rx_split
    /\ Len(rx_frames) = 2
    /\ DispatchedValues = <<GoodValue(rx_pieces[2])>>

-----------------------------------------------------------------------------
(* Event delivery with subscribers that raise: either the serial layer of  *)
(* src/main.py with its handlers and callbacks, or the reader thread of      *)
(* K230Serial with raising on_face_detection / on_face_recognition.          *)
InitDelivery ==
    /\ FaceInit
    /\ SCInit
    /\ MotorInit /\ RgInit /\ DrInit /\ SdInit /\ PaInit /\ PkInit /\ CtInit /\ WsInit
    /\ \/ KInit /\ EmInit
       \/ /\ RxInit
          /\ program = "smartdoor"
          /\ k_cb_raises = TRUE
          /\ event_handlers = [e \in EventNames |-> << >>]
          /\ callbacks = << >>
          /\ rx_queue = << >>
          /\ em_raising = {}
          /\ em_last = NoDelivery
          /\ em_escaped = FALSE

NextDelivery ==
    \/ \E e \in EventNames, h \in Handlers : on(e, h) /\ UNCHANGED not_em
    \/ \E e \in EventNames, h \in Handlers \cup {"None"} : off(e, h) /\ UNCHANGED not_em
    \/ \E h \in Handlers : register_callback(h) /\ UNCHANGED not_em
    \/ \E h \in Handlers : unregister_callback(h) /\ UNCHANGED not_em
    \/ \E e \in EventNames : emit(e) /\ UNCHANGED not_em
    \/ _rx_loop /\ UNCHANGED not_em
    \/ \E n \in 1..Len(rx_pending) : ReadChunk(n) /\ UNCHANGED not_rx

SpecDelivery == InitDelivery /\ [][NextDelivery]_vars

(* C18: a delivery invokes every handler registered for the event, or every *)
(* registered callback, once and in registration order, whichever of them    *)
(* raise, and no exception leaves emit; with raising callbacks K230Serial's  *)
(* reader thread stays alive and every well-formed frame of the text is      *)
(* dispatched to its callback, those after a raising one in the same chunk   *)
(* included.                                                                 *)
C18_SubscriberFailuresIsolated ==
    /\ em_last.kind # "none" => em_last.invoked = em_last.registered
    /\ ~em_escaped
    /\ k_cb_raises =>
         /\ k_running /\ k_thread = "alive"
         /\ IsPrefix(DispatchedValues, Expected(rx_pieces, FALSE))
         /\ rx_pending = << >> => DispatchedValues = Expected(rx_pieces, FALSE)
         /\ \A i \in 1..Len(k_log) :
              k_log[i].parsed.type \in {"face_detection", "face_recognition"} =>
                 /\ k_log[i].raised
                 /\ k_log[i].target =
                       (IF k_log[i].parsed.type = "face_detection"
                        THEN "on_face_detection" ELSE "on_face_recognition")

C18_Witness ==
    /\ em_last.kind = "emit"
    /\ Len(em_last.invoked) = 2
    /\ em_last.invoked[1] \in em_raising
    /\ em_last.invoked[2] \notin em_raising
    /\ event_handlers[CHOOSE e \in EventNames : e # em_last.event] # << >>

-----------------------------------------------------------------------------
(* The frames of a call on the wire, and the index of the one it wrote. *)
Writes(c) == {j \in 1..Len(tx) : tx[j].call = c}

Critical == {t \in Threads : sc_pc[t] \in {"check", "write", "wait"}}

(* C4: a call that returns a response returns the response to the frame it *)
(* wrote itself, never the late response to the frame of an earlier call    *)
(* that timed out.                                                          *)
C4_NoStaleResponse ==
    \A i \in 1..Len(sc_done) :
        sc_done[i].outcome = "response" =>
            AnsweredFrame(sc_done[i].result) \in Writes(sc_done[i].call)

(* C5: at most one send_command call is between its entry into the         *)
(* critical section and its return, and it holds the lock; a frame is       *)
(* written only after the call of every earlier frame has returned.         *)
C5_OneCommandOutstanding ==
    /\ Cardinality(Critical) <= 1
    /\ \A t \in Critical : k_lock = t
    /\ \A j \in 1..Len(tx) : \A h \in 1..(j - 1) :
         \E i \in 1..tx[j].returned : sc_done[i].call = tx[h].call

C5_Witness ==
    /\ sc_pc["t1"] = "wait"
    /\ sc_pc["t2"] = "lock"
    /\ k_lock = "t1"
    /\ Len(tx) = 1

(* C6: _dispatch_message puts a parsed frame on the response queue exactly *)
(* when it is a response; an event goes to its callback, so the queue holds *)
(* responses only and a call never returns an event.                        *)
C6_OnlyResponsesQueued ==
    /\ \A i \in 1..Len(k_log) :
         (k_log[i].target = "queue") <=> (k_log[i].parsed.type = "response")
    /\ \A i \in 1..Len(k_log) :
         k_log[i].parsed.type = "face_detection" =>
            k_log[i].target = "on_face_detection"
    /\ \A i \in 1..Len(k_log) :
         k_log[i].parsed.type = "face_recognition" =>
            k_log[i].target = "on_face_recognition"
    /\ \A i \in 1..Len(response_queue) : response_queue[i].type = "response"
    /\ \A i \in 1..Len(sc_done) :
         sc_done[i].outcome = "response" => sc_done[i].result.type = "response"

C6_Witness ==
    /\ \E t \in Threads : sc_pc[t] = "wait"
    /\ response_queue = << >>
    /\ k_log # << >>
    /\ k_log[Len(k_log)].waiting
    /\ k_log[Len(k_log)].parsed.type = "face_recognition"
    /\ k_log[Len(k_log)].target = "on_face_recognition"

(* C7, as claimed: every call that has returned wrote its frame exactly    *)
(* once.                                                                    *)
C7_ExactlyOneWritePerCall ==
    \A i \in 1..Len(sc_done) : Cardinality(Writes(sc_done[i].call)) = 1

(* C7, amended: a call writes its frame at most once; a call that returns  *)
(* on a response or on the timeout wrote it exactly once, a call refused at *)
(* the connection checks wrote nothing; the timeout returns None with the   *)
(* lock released and nothing written after the one frame.                   *)
C7_NoResend ==
    /\ \A c \in 1..sc_calls : Cardinality(Writes(c)) <= 1
    /\ \A i \in 1..Len(sc_done) :
         LET d == sc_done[i] IN
         /\ d.outcome \in {"response", "timeout"} =>
              Cardinality(Writes(d.call)) = 1
         /\ d.outcome \in {"not_connected", "reader_dead"} =>
              Cardinality(Writes(d.call)) = 0
         /\ d.outcome = "timeout" => d.result = None
         /\ sc_pc[d.thread] \in {"idle", "lock"} => k_lock # d.thread

C7_Witness ==
    /\ \E i \in 1..Len(sc_done) :
         /\ sc_done[i].outcome = "timeout"
         /\ sc_done[i].result = None
         /\ Cardinality(Writes(sc_done[i].call)) = 1
    /\ k_lock = "none"
    /\ sc_calls = MaxCalls

-----------------------------------------------------------------------------
(* Specification of the motor with concurrent callers: the worker threads   *)
(* of controller.py (lines 257-260 and 278-281) call rotate on one motor.   *)
RotateAngles == {0, 1, 90}

MotorNext ==
    \/ \E t \in MotorThreads, angle \in RotateAngles, cw \in BOOLEAN :
         /\ Len(mt_hist) < MaxRotations
         /\ rotate(t, angle, cw)
         /\ UNCHANGED not_mt
    \/ \E t \in MotorThreads : rotate_lock(t) /\ UNCHANGED not_mt
    \/ \E t \in MotorThreads : rotate_direction(t) /\ UNCHANGED not_mt
    \/ \E t \in MotorThreads : _send_pulses_high(t) /\ UNCHANGED not_mt
    \/ \E t \in MotorThreads : _send_pulses_low(t) /\ UNCHANGED not_mt

SpecMotor == Init /\ [][MotorNext]_vars

(* The writes of rotation r among the first n writes to the pins. *)
RotWrites(r, n) == {i \in 1..n : mt_wire[i].rot = r}

PulseWrites(r, n) == {i \in RotWrites(r, n) : mt_wire[i].pin = "PUL"}

(* C19: rotations of one motor are serialized.  In the order of the writes  *)
(* to the pins, the direction pin is written as the first write of a        *)
(* rotation and at no other time; where the writes pass from one rotation   *)
(* to another, the earlier one has emitted its full pulse count and the     *)
(* later one has written nothing before (no interleaving, no resuming);     *)
(* and while a thread is in its pulse train the direction pin has the level *)
(* that thread's rotation gave it.                                          *)
C19_RotationsSerialized ==
    /\ \A i \in 1..Len(mt_wire) :
         LET e == mt_wire[i] IN
         /\ (e.pin = "DIR") <=> (RotWrites(e.rot, i - 1) = {})
         /\ (i > 1 /\ mt_wire[i - 1].rot # e.rot) =>
              /\ RotWrites(e.rot, i - 1) = {}
              /\ Cardinality(PulseWrites(mt_wire[i - 1].rot, i - 1))
                    = 2 * mt_hist[mt_wire[i - 1].rot].pulses
    /\ \A t \in MotorThreads :
         mt_pc[t] \in {"high", "low"} =>
            dir_pin = (IF mt_hist[mt_rot[t]].cw THEN "HIGH" ELSE "LOW")

(* Two threads asked for rotations in opposite directions, the one that    *)
(* asked second ran first, and both trains are complete.                    *)
C19_Witness ==
    /\ Len(mt_hist) = 2
    /\ mt_hist[1].thread # mt_hist[2].thread
    /\ mt_hist[1].cw # mt_hist[2].cw
    /\ \A r \in 1..2 : mt_hist[r].done /\ mt_hist[r].pulses > 0
    /\ mt_wire[1].rot = 2
    /\ Cardinality(PulseWrites(1, Len(mt_wire))) = 2 * mt_hist[1].pulses
    /\ Cardinality(PulseWrites(2, Len(mt_wire))) = 2 * mt_hist[2].pulses

-----------------------------------------------------------------------------
(* Specification of the ramp: one caller, as in tools/test_motor.py, with   *)
(* the quarter turn of the door and shorter trains.                         *)
RampAngles == {0, 90, 360, MOTOR_OPEN_ANGLE}

RampNext ==
    \/ \E angle \in RampAngles, cw \in BOOLEAN :
         /\ Len(mt_hist) < MaxRamps
         /\ rotate("m1", angle, cw)
         /\ UNCHANGED not_mt
    \/ rotate_lock("m1") /\ UNCHANGED not_mt
    \/ rotate_direction("m1") /\ UNCHANGED not_mt
    \/ _send_pulses_high("m1") /\ UNCHANGED not_mt
    \/ _send_pulses_low("m1") /\ UNCHANGED not_mt

SpecRamp == Init /\ [][RampNext]_vars

(* The writes of rotation r to the pulse pin, in order. *)
Train(r) == SelectSeq(mt_wire, LAMBDA e : e.rot = r /\ e.pin = "PUL")

(* C20: a finished rotate(90) with 800 pulses per revolution has emitted    *)
(* exactly 200 pulses, each a HIGH followed by a LOW of the same period;    *)
(* pulses 0 and 199 have the frequency min_freq, pulses 40..159 have        *)
(* max_freq, the frequency does not decrease over pulses 0..39 and does not *)
(* increase over pulses 160..199, and it is always in [min_freq, max_freq]. *)
C20_QuarterTurnRamp ==
    \A r \in 1..Len(mt_hist) :
       LET h == mt_hist[r]
           tr == Train(r)
           f(i) == tr[2 * i + 1].freq
       IN (h.angle = 90 * 64 /\ ppr = 800 /\ h.done) =>
            /\ Len(tr) = 2 * 200
            /\ \A i \in 0..199 :
                 /\ tr[2 * i + 1].level = "HIGH"
                 /\ tr[2 * i + 2].level = "LOW"
                 /\ Same(tr[2 * i + 2].freq, f(i))
                 /\ Leq(Whole(min_freq), f(i))
                 /\ Leq(f(i), Whole(max_freq))
            /\ Same(f(0), Whole(min_freq))
            /\ Same(f(199), Whole(min_freq))
            /\ \A i \in 40..159 : Same(f(i), Whole(max_freq))
            /\ \A i \in 0..38 : Leq(f(i), f(i + 1))
            /\ \A i \in 160..198 : Leq(f(i + 1), f(i))

(* A quarter turn has finished, with a ramp that is neither flat nor       *)
(* clamped: pulse 1 is strictly between the two frequencies.               *)
C20_Witness ==
    \E r \in 1..Len(mt_hist) :
       /\ mt_hist[r].angle = MOTOR_OPEN_ANGLE
       /\ mt_hist[r].done
       /\ Len(Train(r)) = 400
       /\ ~Leq(Train(r)[3].freq, Whole(min_freq))
       /\ ~Leq(Whole(max_freq), Train(r)[3].freq)

-----------------------------------------------------------------------------
(* Specification of the pulse count: one caller, with angles that are not   *)
(* positive and angles whose quotient angle / 360 * ppr is not whole        *)
(* (45/64 degree gives 1.5625, 90/64 degree gives 3.125).                   *)
PulseAngles == {0 - 64, 0, 1, 45, 90}

PulseCountNext ==
    \/ \E angle \in PulseAngles, cw \in BOOLEAN :
         /\ Len(mt_hist) < MaxRotations
         /\ rotate("m1", angle, cw)
         /\ UNCHANGED not_mt
    \/ rotate_lock("m1") /\ UNCHANGED not_mt
    \/ rotate_direction("m1") /\ UNCHANGED not_mt
    \/ _send_pulses_high("m1") /\ UNCHANGED not_mt
    \/ _send_pulses_low("m1") /\ UNCHANGED not_mt

SpecPulseCount == Init /\ [][PulseCountNext]_vars

(* angle / 360 * ppr rounded to the nearest whole number, for angle > 0 *)
Rounded(angle) == (2 * angle * ppr + 360 * 64) \div (2 * 360 * 64)

(* C21: a finished rotate has written no pin when angle <= 0 and has        *)
(* emitted round(angle / 360 * pulses_per_rev) pulses otherwise.            *)
C21_PulseCountRounded ==
    \A r \in 1..Len(mt_hist) :
       mt_hist[r].done =>
          IF mt_hist[r].angle <= 0
          THEN RotWrites(r, Len(mt_wire)) = {}
          ELSE Len(Train(r)) = 2 * Rounded(mt_hist[r].angle)

-----------------------------------------------------------------------------
(* Specification of the short trains: one caller, one angle for each pulse  *)
(* count from 1 to 9, where int(count * 0.2) is 0 or 1.                     *)
ShortAngles == {45, 64, 90, 128, 160, 180, 208, 240, 272}

ShortTrainNext ==
    \/ \E angle \in ShortAngles, cw \in BOOLEAN :
         /\ Len(mt_hist) < MaxRamps
         /\ rotate("m1", angle, cw)
         /\ UNCHANGED not_mt
    \/ rotate_lock("m1") /\ UNCHANGED not_mt
    \/ rotate_direction("m1") /\ UNCHANGED not_mt
    \/ _send_pulses_high("m1") /\ UNCHANGED not_mt
    \/ _send_pulses_low("m1") /\ UNCHANGED not_mt

SpecShortTrain == Init /\ [][ShortTrainNext]_vars

(* C22: in a train of 1 to 9 pulses every pulse is emitted at max_freq. *)
C22_ShortTrainAtMaxFreq ==
    \A i \in 1..Len(mt_wire) :
       LET e == mt_wire[i] IN
       (e.pin = "PUL" /\ mt_hist[e.rot].pulses \in 1..9) =>
           Same(e.freq, Whole(max_freq))

-----------------------------------------------------------------------------
(* Specification of the remote channel: start_async, the connection         *)
(* attempts with either outcome, lost connections, the reconnect loops and  *)
(* one call of disconnect().                                                *)
WsNext ==
    \/ start_async /\ UNCHANGED not_ws
    \/ \E t \in Connectors : DC_Lock(t) /\ UNCHANGED not_ws
    \/ \E t \in Connectors : DC_Create(t) /\ UNCHANGED not_ws
    \/ \E t \in Connectors, ok \in BOOLEAN : DC_Connect(t, ok) /\ UNCHANGED not_ws
    \/ \E t \in Connectors : DC_Return(t) /\ UNCHANGED not_ws
    \/ on_disconnect /\ UNCHANGED not_ws
    \/ \E t \in Schedulers : _schedule_reconnect(t) /\ UNCHANGED not_ws
    \/ \E t \in Schedulers, l \in Loops :
          _schedule_reconnect_start(t, l) /\ UNCHANGED not_ws
    \/ \E l \in Loops : _reconnect_loop_while(l) /\ UNCHANGED not_ws
    \/ \E l \in Loops : _reconnect_loop_sleep(l) /\ UNCHANGED not_ws
    \/ disconnect_flag /\ UNCHANGED not_ws
    \/ disconnect_connected /\ UNCHANGED not_ws
    \/ disconnect_sio /\ UNCHANGED not_ws

SpecWs == Init /\ [][WsNext]_vars

(* C23: in one run of the reconnect loop the k-th sleep (k = 0, 1, ...) is  *)
(* the k-th element of 1, 2, 5, 10, 30, 60, and 60 from k = 5 on; the       *)
(* delays of a run never decrease and never exceed 60, and the first delay  *)
(* of every run is 1.                                                       *)
C23_BackoffSchedule ==
    \A l \in Loops :
       LET d == rl_delays[l] IN
       /\ \A k \in 1..Len(d) :
            /\ d[k] = <<1, 2, 5, 10, 30, 60>>[IF k < 6 THEN k ELSE 6]
            /\ d[k] <= 60
            /\ k > 1 => d[k - 1] <= d[k]
       /\ Len(d) > 0 => d[1] = 1

(* The second run of a reconnect loop has slept seven times, the last two  *)
(* times for 60 seconds.                                                    *)
C23_Witness ==
    /\ ws_runs = 2
    /\ \E l \in Loops :
         /\ Len(rl_delays[l]) = 7
         /\ rl_delays[l][6] = 60
         /\ rl_delays[l][7] = 60
         /\ rl_retry[l] = 7

(* C24: once disconnect() has cleared _should_run there is no connection    *)
(* attempt, no new reconnect loop, and the client does not become connected *)
(* again: it is not connected when disconnect() has returned.               *)
C24_NothingAfterDisconnect ==
    /\ ws_late = {}
    /\ md_pc = "done" => ~ws_connected

-----------------------------------------------------------------------------
(* Specification of the controller: start() with either outcome of the      *)
(* transport and of the PING, the callbacks and remote commands, the        *)
(* auto-close timers, the worker threads and stop(); of the remote channel  *)
(* the first connection, its loss and the start of a reconnect loop, which  *)
(* stays in its first iteration here (its steps are those of SpecWs).       *)
CtrlNext ==
    \/ \E ok \in BOOLEAN : start_connect(ok)
    \/ \E pong \in BOOLEAN : start_ping(pong)
    \/ start_function
    \/ stop_cancel
    \/ stop_k230
    \/ ct_main = "stop_ws" /\ disconnect_flag /\ UNCHANGED not_ws
    \/ ct_main = "stop_ws" /\ disconnect_connected /\ UNCHANGED not_ws
    \/ ct_main = "stop_ws" /\ disconnect_sio /\ UNCHANGED not_ws
    \/ stop_join
    \/ \E raises \in BOOLEAN : _handle_face_success(raises)
    \/ \E by \in {"reader", "timer"}, raises \in BOOLEAN : _handle_face_reject(by, raises)
    \/ \E raises \in BOOLEAN : _timer_loop_report(raises)
    \/ \E cmd \in Commands, angle \in ConfigAngles, raises \in BOOLEAN :
          _on_ws_command(cmd, angle, raises)
    \/ \E id \in 1..Len(ct_timers), raises \in BOOLEAN : close_timer_fires(id, raises)
    \/ \E i \in 1..Len(ct_workers), raises \in BOOLEAN : worker_runs(i, raises)
    \/ \E t \in Connectors : DC_Lock(t) /\ UNCHANGED not_ws
    \/ \E t \in Connectors : DC_Create(t) /\ UNCHANGED not_ws
    \/ \E t \in Connectors, ok \in BOOLEAN : DC_Connect(t, ok) /\ UNCHANGED not_ws
    \/ \E t \in Connectors : DC_Return(t) /\ UNCHANGED not_ws
    \/ on_disconnect /\ UNCHANGED not_ws
    \/ \E t \in Schedulers : _schedule_reconnect(t) /\ UNCHANGED not_ws
    \/ \E t \in Schedulers, l \in Loops :
          _schedule_reconnect_start(t, l) /\ UNCHANGED not_ws

SpecCtrl == Init /\ [][CtrlNext]_vars

(* C25: local door operation does not depend on the remote channel.  A face *)
(* success handled while the channel is not connected sets the door state   *)
(* to OPEN, starts a worker thread for the opening rotation and leaves a    *)
(* pending auto-close timer; no step taken while the channel is not         *)
(* connected emits an event, and no exception leaves a report.              *)
C25_FaceSuccessStep == ct_successes' = ct_successes + 1

C25_OfflineDoorWorks ==
    [][ /\ (C25_FaceSuccessStep /\ ~ws_connected) =>
              /\ door_status' = "OPEN"
              /\ Len(ct_workers') = Len(ct_workers) + 1
              /\ ct_workers'[Len(ct_workers')].target = "rotate"
              /\ ct_workers'[Len(ct_workers')].cw
              /\ close_timer' # 0
              /\ ct_timers'[close_timer'] = "pending"
        /\ ~ws_connected => ws_emitted' = ws_emitted
        /\ ~ct_escaped' ]_vars

(* A face success was handled while a reconnect loop was running: the door  *)
(* is open, the auto-close is pending, the rotation was started, nothing    *)
(* was emitted.                                                             *)
C25_Witness ==
    /\ ct_successes = 1
    /\ ~ws_connected
    /\ is_alive
    /\ ws_sio = "client"
    /\ ws_emitted = 0
    /\ door_status = "OPEN"
    /\ close_timer # 0
    /\ ct_timers[close_timer] = "pending"
    /\ Len(ct_workers) = 1

(* C26: when the transport does not open or the PING gets no PONG, start()  *)
(* has returned False; the remote channel, the coprocessor functions and    *)
(* the timer thread were not started and no callback is registered; after a *)
(* failed PING the transport is disconnected.                               *)
C26_FailedStartStartsNothing ==
    ct_start # "none" =>
       /\ ct_main = "failed"
       /\ ws_pc["conn"] = "idle" /\ ws_sio = "none" /\ ws_runs = 0
       /\ \A e \in ct_long : e.op # "start_function"
       /\ ct_timer_thread = "none" /\ ~ct_running
       /\ ~k_callbacks.det /\ ~k_callbacks.rec /\ ~ct_on_command
       /\ ct_handled = 0
       /\ ct_start = "ping_failed" =>
             k_serial = "none" /\ ~k_running /\ k_thread = "none"

C26_Witness ==
    /\ ct_start = "ping_failed"
    /\ ct_main = "failed"
    /\ [thread |-> "main", op |-> "ping"] \in ct_long
    /\ k_serial = "none"

(* C27: the reader thread and the thread of the remote commands never call  *)
(* rotate (they never wait for the motor's lock) and never call a command   *)
(* of K230Serial; every rotation and every registration runs in a thread    *)
(* started for it.                                                          *)
C27_CallbacksNeverBlock ==
    /\ \A e \in ct_long : e.thread \notin {"reader", "sio"}
    /\ \A i \in 1..Len(ct_workers) :
         /\ ct_workers[i].thread = "worker"
         /\ ct_workers[i].thread # ct_workers[i].by

(* The rotation asked for by a face success in the reader thread has run in *)
(* a worker thread.                                                         *)
C27_Witness ==
    /\ \E i \in 1..Len(ct_workers) :
         /\ ct_workers[i].by = "reader"
         /\ ct_workers[i].target = "rotate"
         /\ ct_workers[i].state = "done"
    /\ [thread |-> "worker", op |-> "rotate"] \in ct_long

(* C28: every write to the door state is made by one and the same thread;  *)
(* the values written are OPEN and CLOSED.                                  *)
C28_SingleWriter ==
    /\ Cardinality({w.thread : w \in ct_writes}) <= 1
    /\ \A w \in ct_writes : w.value \in {"OPEN", "CLOSED"}
    /\ door_status \in {"OPEN", "CLOSED"}

(* C29: after stop() has returned no auto-close timer is pending and no     *)
(* timer has started a close action.                                        *)
C29_StopCancelsAutoClose ==
    ct_main = "stopped" =>
       /\ \A id \in 1..Len(ct_timers) : ct_timers[id] # "pending"
       /\ "close" \notin ct_late

(* The legacy packets: one packet is built and parsed. *)
PacketNext ==
    \/ \E func_id \in FuncIds, args \in ArgLists :
          _build_packet(func_id, args) /\ UNCHANGED not_pk
    \/ parse_data /\ UNCHANGED not_pk

SpecPacket == Init /\ [][PacketNext]_vars

ParseNext ==
    \/ /\ pa_parser = "none"
       /\ \E f1 \in Field1, f2 \in Field2, f3 \in Field3, f4 \in Field4,
             f6 \in Field6, f8 \in Field8, k \in 1..MaxFields, shape \in Shapes :
             Parse_message(Frame(Fields(f1, f2, f3, f4, f6, f8, k), shape))
       /\ UNCHANGED not_pa
    \/ /\ pa_parser = "none"
       /\ \E text \in Examples : Parse_message(text)
       /\ UNCHANGED not_pa
    \/ /\ pa_parser = "none"
       /\ \E f1 \in Field1, f2 \in Field2, f3 \in Field3, f4 \in Field4,
             f6 \in Field6, f8 \in Field8, k \in 1..MaxFields, shape \in Shapes,
             kind \in Kinds :
             Parse_data([kind |-> kind,
                         text |-> Frame(Fields(f1, f2, f3, f4, f6, f8, k), shape)])
       /\ UNCHANGED not_pa

SpecParse == Init /\ [][ParseNext]_vars

(* C31: both parsers are total.  Whatever the text, parse_message and the   *)
(* legacy parse_data return a parsed result or Malformed (None) and no      *)
(* exception leaves them; a text without the end sentinel, a detection or   *)
(* recognition frame with a coordinate that is not a number, and a legacy   *)
(* frame whose length field is not its length give Malformed.               *)
HasEnd(text) == text # << >> /\ text[Len(text)] = "#"

PartsOf(text) == Split(SubSeq(Strip(text), 2, Len(Strip(text)) - 1), ",")

C31_BadCoordinate ==
    LET parts == PartsOf(pa_input.text)
    IN  /\ Len(parts) >= 6
        /\ IF pa_parser = "parse_message"
           THEN /\ IsDigit(parts[1])
                /\ parts[2] \in {DATA_TYPE_FACE_DETECTION, DATA_TYPE_FACE_RECOGNITION}
           ELSE /\ IsInt(parts[2])
                /\ IntVal(parts[2]) \in {DATA_FACE_DETECT, DATA_FACE_RECOGNITION}
        /\ \E i \in 3..6 : ~IsInt(parts[i])

C31_ParsersTotal ==
    pa_parser # "none" =>
       /\ pa_result.type # "raised"
       /\ pa_result.type \in {"malformed", "response", "face_detection",
                              "face_recognition", "parsed"}
       /\ ~HasEnd(Strip(pa_input.text)) => pa_result = Malformed
       /\ (pa_input.kind # "bad_bytes" /\ Len(Strip(pa_input.text)) >= 2
             /\ C31_BadCoordinate) => pa_result = Malformed
       /\ (pa_parser = "parse_data" /\ pa_input.kind # "bad_bytes"
             /\ Len(Strip(pa_input.text)) >= 2
             /\ IsInt(PartsOf(pa_input.text)[1])
             /\ IntVal(PartsOf(pa_input.text)[1]) # Len(Strip(pa_input.text)))
          => pa_result = Malformed

(* The legacy parser was given a recognition frame of the right length      *)
(* whose fourth coordinate is not a number: the ValueError of int was       *)
(* caught and the result is Malformed.                                      *)
C31_Witness ==
    /\ pa_parser = "parse_data"
    /\ pa_input.kind = "bytes"
    /\ HasEnd(pa_input.text)
    /\ Head(pa_input.text) = "$"
    /\ LET parts == PartsOf(pa_input.text)
       IN  /\ Len(parts) = 8
           /\ IsInt(parts[1])
           /\ IntVal(parts[1]) = Len(pa_input.text)
           /\ parts[2] = <<"0", "8">>
           /\ parts[4] = <<"y">>
    /\ pa_result = Malformed

(* The round trip: one frame is built from a name or function id and up to  *)
(* two arguments free of ',', '$' and '#', and parsed.  The function ids    *)
(* are those of the commands of the legacy dialect (1 to 5), two data ids   *)
(* and an id the parser does not know.                                      *)
CommandNames == {<<"P", "I", "N", "G">>, <<"S", "T", "O", "P">>,
                 <<"R", "E", "G", "C", "A", "M">>}

LegacyIds == {1, 2, 3, 4, 5, DATA_FACE_DETECT, DATA_STATUS, 100}

ArgTexts == {<<"8">>, <<"1", "0">>, <<"u", "1">>, <<"b", "o", "b">>, << >>}

RoundTripArgs ==
    {<< >>} \cup {<<a>> : a \in ArgTexts} \cup {<<a, b>> : a \in ArgTexts, b \in ArgTexts}

RoundTripNext ==
    \/ /\ \E cmd \in CommandNames, args \in RoundTripArgs :
            RoundTrip_keyword(cmd, args)
       /\ UNCHANGED not_pa
    \/ /\ \E func_id \in LegacyIds, args \in RoundTripArgs :
            RoundTrip_legacy(func_id, args)
       /\ UNCHANGED not_pa

SpecRoundTrip == Init /\ [][RoundTripNext]_vars

(* The name or function id and the arguments a result carries. *)
Recovered(result) ==
    IF result.type = "parsed" /\ "raw_params" \in DOMAIN result.data
    THEN [func_id |-> result.func_id, args |-> result.data.raw_params]
    ELSE IF result.type = "parsed" /\ result.func_id = DATA_STATUS
    THEN [func_id |-> result.func_id,
          args |-> <<str_text(result.data.mode), result.data.message>>]
    ELSE [func_id |-> 0, args |-> << >>]

(* C32: the round trip holds in both dialects.  Parsing the frame the       *)
(* builder made gives a parsed result that carries the name (or function    *)
(* id) and the arguments the builder was given.                             *)
C32_RoundTrip ==
    /\ pa_built.dialect = "keyword" =>
          /\ pa_result.type \notin {"malformed", "raised"}
          /\ "name" \in DOMAIN pa_result
          /\ pa_result.name = pa_built.name
    /\ pa_built.dialect = "legacy" =>
          /\ pa_result.type = "parsed"
          /\ Recovered(pa_result).func_id = pa_built.func_id
          /\ Recovered(pa_result).args = pa_built.args

(* C33: parse_message classifies every frame as exactly one of Response,    *)
(* DetectionEvent, RecognitionEvent and Malformed.  It is a Response        *)
(* exactly when the first field is RSP, the length is a number and there    *)
(* is a status; a DetectionEvent exactly when the first field is digits,    *)
(* the type is 06 and four integer fields follow; a RecognitionEvent        *)
(* exactly when the first field is digits, the type is 08 and six fields    *)
(* follow of which x, y, w, h and the score are integers; a text that is    *)
(* not a frame is Malformed; every result has all its fields, with the      *)
(* values of the text.  The three frames of the specification give          *)
(* DetectionEvent{10,20,30,40}, Response{OK, ["1","6"]} and Response{PONG}. *)
IsFrame(text) ==
    /\ Len(Strip(text)) >= 1
    /\ Head(Strip(text)) = "$"
    /\ HasEnd(Strip(text))

C33_IsResponse(parts) ==
    /\ parts[1] = <<"R", "S", "P">>
    /\ Len(parts) >= 3
    /\ IsInt(parts[2])

C33_IsDetection(parts) ==
    /\ IsDigit(parts[1])
    /\ Len(parts) >= 6
    /\ parts[2] = <<"0", "6">>
    /\ \A i \in 3..6 : IsInt(parts[i])

C33_IsRecognition(parts) ==
    /\ IsDigit(parts[1])
    /\ Len(parts) >= 8
    /\ parts[2] = <<"0", "8">>
    /\ \A i \in {3, 4, 5, 6, 8} : IsInt(parts[i])

C33_Classification ==
    pa_parser = "parse_message" =>
      LET text == pa_input.text
          parts == PartsOf(text)
          r == pa_result
      IN  /\ r.type \in {"response", "face_detection", "face_recognition", "malformed"}
          /\ ~IsFrame(text) => r = Malformed
          /\ IsFrame(text) =>
                /\ r.type = "response" <=> C33_IsResponse(parts)
                /\ r.type = "face_detection" <=> C33_IsDetection(parts)
                /\ r.type = "face_recognition" <=> C33_IsRecognition(parts)
          /\ r.type = "response" =>
                /\ DOMAIN r = {"type", "length", "status", "data"}
                /\ r.length = IntVal(parts[2])
                /\ r.status \in {"OK", "PONG", "ERR"}
                /\ r.data = SubSeq(parts, 4, Len(parts))
          /\ r.type = "face_detection" =>
                /\ DOMAIN r = {"type", "x", "y", "w", "h"}
                /\ <<r.x, r.y, r.w, r.h>> = [i \in 1..4 |-> IntVal(parts[i + 2])]
          /\ r.type = "face_recognition" =>
                /\ DOMAIN r = {"type", "x", "y", "w", "h", "name", "score"}
                /\ <<r.x, r.y, r.w, r.h>> = [i \in 1..4 |-> IntVal(parts[i + 2])]
                /\ r.name = parts[7]
                /\ r.score = IntVal(parts[8])
          /\ text = <<"$", "1", "6", ",", "0", "6", ",", "1", "0", ",", "2", "0", ",",
                      "3", "0", ",", "4", "0", "#">>
                => r = [type |-> "face_detection", x |-> 10, y |-> 20, w |-> 30,
                        h |-> 40]
          /\ text = <<"$", "R", "S", "P", ",", "1", "0", ",", "O", "K", ",", "1", ",",
                      "6", "#">>
                => r = [type |-> "response", length |-> 10, status |-> "OK",
                        data |-> << <<"1">>, <<"6">> >>]
          /\ text = <<"$", "R", "S", "P", ",", "1", "8", ",", "P", "O", "N", "G", ",",
                      "K", "2", "3", "0", "#">>
                => r = [type |-> "response", length |-> 18, status |-> "PONG",
                        data |-> << <<"K", "2", "3", "0">> >>]

(* The detection frame of the specification was parsed. *)
C33_Witness ==
    /\ pa_parser = "parse_message"
    /\ pa_input.text = <<"$", "1", "6", ",", "0", "6", ",", "1", "0", ",", "2", "0",
                         ",", "3", "0", ",", "4", "0", "#">>
    /\ pa_result.type = "face_detection"
    /\ pa_result.h = 40

(* The status of the responses: the calls of SpecCmd on a connected         *)
(* transport, answered by a coprocessor that uses any status token.         *)
InitStatus ==
    FaceInit /\ ConnectedInit /\ SCInit /\ EmIdle /\ MotorInit /\ RgInit /\ DrInit /\ SdInit /\ PaInit /\ PkInit
    /\ CtInit /\ WsInit

NextStatus ==
    \/ \E t \in Threads : SC_Call(t) /\ UNCHANGED not_cmd
    \/ \E t \in Threads : SC_Enter(t) /\ UNCHANGED not_cmd
    \/ \E t \in Threads : SC_CheckDrain(t) /\ UNCHANGED not_cmd
    \/ \E t \in Threads : SC_Write(t, "ok") /\ UNCHANGED not_cmd
    \/ \E t \in Threads : SC_Receive(t) /\ UNCHANGED not_cmd
    \/ \E t \in Threads : SC_Timeout(t) /\ UNCHANGED not_cmd
    \/ \E j \in dev_pending, token \in StatusTokens :
          Dev_Respond_status(j, token) /\ UNCHANGED not_cmd

SpecStatus == InitStatus /\ [][NextStatus]_vars

KnownStatus == {<<"O", "K">>, <<"P", "O", "N", "G">>, <<"E", "R", "R">>}

(* The status token of the frame a response was parsed from. *)
TokenOf(response) == response.data[2]

(* C34, as claimed: a response whose status token is none of OK, PONG, ERR  *)
(* is a Response with status ERR; it is handed to the waiting send_command  *)
(* and makes the convenience call return failure.                           *)
C34_UnknownStatusIsErr ==
    /\ \A i \in 1..Len(k_log) :
         LET e == k_log[i] IN
         (e.parsed.type = "response" /\ TokenOf(e.parsed) \notin KnownStatus) =>
            e.parsed.status = "ERR" /\ e.target = "queue"
    /\ \A i \in 1..Len(sc_done) :
         LET d == sc_done[i] IN
         (d.outcome = "response" /\ TokenOf(d.result) \notin KnownStatus) =>
            /\ d.result.status = "ERR"
            /\ ~convenience(d.thread, d.result)

(* C34, amended: a response whose status token is none of OK, PONG, ERR in  *)
(* any letter case is a Response with status ERR; every response frame is   *)
(* put on the queue of the waiting send_command, and the convenience call   *)
(* that gets a response of status ERR returns failure.                      *)
C34_UnknownStatusFails ==
    /\ \A i \in 1..Len(k_log) :
         LET e == k_log[i] IN
         /\ (e.parsed.type = "response" /\ Upper(TokenOf(e.parsed)) \notin KnownStatus)
               => e.parsed.status = "ERR"
         /\ e.parsed.type = "response" => e.target = "queue"
    /\ \A i \in 1..Len(sc_done) :
         LET d == sc_done[i] IN
         (d.outcome = "response" /\ Upper(TokenOf(d.result)) \notin KnownStatus) =>
            /\ d.result.status = "ERR"
            /\ ~ping(d.result)
            /\ ~ok_call(d.result)
            /\ ~convenience(d.thread, d.result)

(* start_function got the answer BUSY to its own frame while it waited: it  *)
(* returned, with a response of status ERR.                                 *)
C34_Witness ==
    \E i \in 1..Len(sc_done) :
       /\ sc_done[i].outcome = "response"
       /\ sc_done[i].thread = "t2"
       /\ TokenOf(sc_done[i].result) = <<"B", "U", "S", "Y">>
       /\ AnsweredFrame(sc_done[i].result) \in Writes(sc_done[i].call)
       /\ sc_done[i].result.status = "ERR"
       /\ ~convenience("t2", sc_done[i].result)

(* Shutdown of the transport: the reader thread with one piece of text on   *)
(* the line, a thread that calls disconnect(), and a thread that calls       *)
(* send_command.                                                             *)
RxOnePiece ==
    /\ k_serial = "open"
    /\ k_running = TRUE
    /\ k_thread = "alive"
    /\ rx_buffer = << >>
    /\ \E p \in 1..Len(Pieces) :
          /\ rx_pieces = <<p>>
          /\ rx_pending = Pieces[p]
    /\ response_queue = << >>
    /\ k_callbacks = [det |-> TRUE, rec |-> TRUE]
    /\ k_log = << >>
    /\ rx_frames = << >>
    /\ rx_split = FALSE

InitShutdown ==
    FaceInit /\ RxOnePiece /\ SCInit /\ EmIdle /\ MotorInit /\ RgInit /\ DrInit /\ SdInit /\ PaInit /\ PkInit
    /\ CtInit /\ WsInit

NextShutdown ==
    \/ RL_Test
    \/ RL_Body
    \/ DC_Clear
    \/ \E timed_out \in BOOLEAN : DC_Join(timed_out)
    \/ DC_Close
    \/ DC_Forget
    \/ SC_Call("t1") /\ UNCHANGED not_cmd
    \/ SC_Enter("t1") /\ UNCHANGED not_cmd
    \/ SC_CheckDrain("t1") /\ UNCHANGED not_cmd
    \/ \E io \in {"ok", "write_raises"} : SC_Write("t1", io) /\ UNCHANGED not_cmd
    \/ SC_Receive("t1") /\ UNCHANGED not_cmd
    \/ SC_Timeout("t1") /\ UNCHANGED not_cmd

SpecShutdown == InitShutdown /\ [][NextShutdown]_vars

(* C35: once disconnect() has cleared the running flag, the reader loop     *)
(* dispatches no frame from a chunk it reads afterwards; when disconnect()   *)
(* has returned the transport is closed and not connected, and every         *)
(* send_command that starts later returns failure without writing.           *)
C35_ShutdownStopsDispatch ==
    /\ rd_late = 0
    /\ dc_pc = "done" => k_serial = "none" /\ ~k_running
    /\ \A i \in 1..Len(sc_done) :
         (dc_pc = "done" /\ sc_done[i].call > dc_mark) =>
            sc_done[i].outcome = "not_connected" /\ Writes(sc_done[i].call) = {}

(* The part of the shutdown that holds: when disconnect() has returned the   *)
(* port is closed and the flag cleared, and a send_command that enters its    *)
(* critical section later returns None at line 200 with nothing written.      *)
C35_AfterDisconnect ==
    /\ dc_pc = "done" => k_serial = "none" /\ ~k_running
    /\ \A i \in 1..Len(sc_done) :
         (dc_pc = "done" /\ sc_done[i].call > dc_mark) =>
            sc_done[i].outcome = "not_connected" /\ Writes(sc_done[i].call) = {}

(* The door of the running controller: face successes in the reader thread, *)
(* OPEN and CLOSE commands in the thread of the socketio client, the        *)
(* auto-close timers, and the worker threads on the motor.                   *)
InitDoor ==
    FaceInit /\ ConnectedInit /\ SCInit /\ EmIdle /\ MotorInit /\ RgInit /\ DrInit /\ SdInit /\ PaInit
    /\ PkInit /\ CtStarted /\ WsConnected

NextDoor ==
    \/ \E t \in DoorThreads : OD_Cancel(t)
    \/ \E t \in DoorThreads : OD_Status(t)
    \/ \E t \in DoorThreads : OD_Worker(t)
    \/ \E t \in DoorThreads : OD_Timer(t)
    \/ CD_Command
    \/ \E id \in 1..Len(ct_timers) : CD_Timer(id)
    \/ \E i \in 1..Len(ct_workers), t \in MotorThreads : WK_Rotate(i, t)
    \/ \E t \in MotorThreads : rotate_lock(t) /\ UNCHANGED not_mt
    \/ \E t \in MotorThreads : rotate_direction(t) /\ UNCHANGED not_mt
    \/ \E t \in MotorThreads : _send_pulses_high(t) /\ UNCHANGED not_mt
    \/ \E t \in MotorThreads : _send_pulses_low(t) /\ UNCHANGED not_mt

SpecDoor == InitDoor /\ [][NextDoor]_vars

PendingTimers == {id \in 1..Len(ct_timers) : ct_timers[id] = "pending"}

(* C36: at most one auto-close timer is pending at any time, in every       *)
(* interleaving of the open actions of the reader thread and of the thread   *)
(* of the remote channel, so that a burst of opens is followed by one        *)
(* automatic close.                                                          *)
C36_OneTimerPending == Cardinality(PendingTimers) <= 1


(* The rotations requested so far in the given direction. *)
Requested(cw) ==
    Cardinality({i \in 1..Len(ct_workers) :
                    ct_workers[i].target = "rotate" /\ ct_workers[i].cw = cw})

(* C37: whenever no thread is inside _open_door, the number of opening (CW)  *)
(* rotations requested minus the number of closing (CCW) rotations requested *)
(* is 1 when the door state is OPEN and 0 when it is CLOSED.                 *)
C37_RotationsMatchState ==
    (\A t \in DoorThreads : od_pc[t] = "idle") =>
        Requested(TRUE) - Requested(FALSE) = (IF door_status = "OPEN" THEN 1 ELSE 0)


(* The rotation of the motor that worker i asked for, 0 before its thread    *)
(* has called rotate.                                                        *)
RotOf(i) ==
    IF \E k \in 1..Len(dr_rot) : dr_rot[k].worker = i
    THEN dr_rot[CHOOSE k \in 1..Len(dr_rot) : dr_rot[k].worker = i].rot
    ELSE 0

(* The pulse train of worker i has started: its rotation has written a pin. *)
TrainStarted(i) ==
    RotOf(i) # 0 /\ \E n \in 1..Len(mt_wire) : mt_wire[n].rot = RotOf(i)

TrainCompleted(i) == RotOf(i) # 0 /\ mt_hist[RotOf(i)].done

(* C38: pulse trains are emitted in the order of the door actions.  When a  *)
(* close action was issued after an open action (its worker thread was       *)
(* started later), the closing train starts only after the opening train of  *)
(* the earlier action has completed.                                         *)
C38_TrainsInOrder ==
    \A i, j \in 1..Len(ct_workers) :
       (i < j /\ ct_workers[i].cw /\ ~ct_workers[j].cw /\ TrainStarted(j))
          => TrainCompleted(i)

(* Registrations on the running controller: REGISTER_FACE commands in the   *)
(* thread of the socketio client and the worker threads they start.          *)
InitRegister ==
    FaceInit /\ ConnectedInit /\ SCInit /\ EmIdle /\ MotorInit /\ RgInit /\ DrInit /\ SdInit
    /\ PaInit /\ PkInit /\ CtStarted /\ WsConnected

NextRegister ==
    \/ \E user_id \in UserIds : RG_Command(user_id)
    \/ \E r \in 1..Len(rg_regs) : RG_Enter(r)
    \/ \E r \in 1..Len(rg_regs), status \in {"OK", "ERR", "none"} : RG_Send(r, status)

SpecRegister == InitRegister /\ [][NextRegister]_vars

(* The registration that made call c, 0 if there is none. *)
RegOfCall(c) ==
    IF \E r \in 1..Len(rg_regs) : \E k \in 1..Len(rg_regs[r].calls) : rg_regs[r].calls[k] = c
    THEN CHOOSE r \in 1..Len(rg_regs) :
            \E k \in 1..Len(rg_regs[r].calls) : rg_regs[r].calls[k] = c
    ELSE 0

IsRegcam(frame) ==
    Len(frame) > 11 /\ SubSeq(frame, 1, 12) = <<"$", "C", "M", "D", ",", "R", "E", "G", "C", "A", "M", ",">>

(* C39: a registration is an uninterrupted triple on the wire.  Every REGCAM *)
(* frame is immediately preceded by the STOP of the same registration and    *)
(* immediately followed by its START (of function 8), which is sent whether  *)
(* the registration succeeded or not; a REGISTER_FACE without user_id writes *)
(* no frame.                                                                 *)
C39_UninterruptedTriple ==
    /\ \A n \in 1..Len(tx) :
         /\ RegOfCall(tx[n].call) # 0
         /\ IsRegcam(tx[n].frame) =>
              LET made == rg_regs[RegOfCall(tx[n].call)].calls IN
              /\ n > 1
              /\ tx[n - 1].call = made[1]
              /\ tx[n - 1].frame = build_command(<<"S", "T", "O", "P">>, << >>)
              /\ n < Len(tx) =>
                    /\ Len(made) = 3
                    /\ tx[n + 1].call = made[3]
                    /\ tx[n + 1].frame = build_command(<<"S", "T", "A", "R", "T">>, << <<"8">> >>)
    /\ \A r \in 1..Len(rg_regs) :
         rg_regs[r].step = "done" =>
            \E n \in 1..Len(tx) :
               /\ tx[n].call = rg_regs[r].calls[3]
               /\ tx[n].frame = build_command(<<"S", "T", "A", "R", "T">>, << <<"8">> >>)

(* The part that holds: each registration writes STOP, REGCAM with its user  *)
(* id and START in this order, START also after a failed registration, and   *)
(* nothing else is written.                                                  *)
C39_TripleInOrder ==
    /\ \A n \in 1..Len(tx) : RegOfCall(tx[n].call) # 0
    /\ Len(tx) <= 3 * Len(rg_regs)
    /\ \A r \in 1..Len(rg_regs) :
         LET reg == rg_regs[r]
             mine == SelectSeq(tx, LAMBDA w : RegOfCall(w.call) = r)
         IN /\ Len(mine) = Len(reg.calls) - (IF reg.locked THEN 1 ELSE 0)
            /\ \A k \in 1..Len(mine) :
                 mine[k].frame =
                    LET command == RegCommand(<<"stop", "regcam", "start">>[k], reg.user_id)
                    IN build_command(command.cmd, command.args)
            /\ reg.step = "done" => Len(mine) = 3


(* C40: send_command fails closed.  A call that finds no port (line 198) or *)
(* a reader thread that has ended (line 203) returns None and leaves the     *)
(* queue and the wire as they are; a call whose write fails returns None     *)
(* without waiting, and writes nothing when the port is closed or gone; and  *)
(* no thread that has left send_command holds the lock, whatever             *)
(* disconnect() does meanwhile.                                              *)
C40_Step ==
    \A t \in Threads :
       /\ (sc_pc[t] = "check" /\ sc_pc'[t] # "check"
              /\ (k_serial = "none" \/ k_thread = "dead")) =>
             /\ sc_pc'[t] = "idle"
             /\ Len(sc_done') = Len(sc_done) + 1
             /\ sc_done'[Len(sc_done')].result = None
             /\ response_queue' = response_queue
             /\ tx' = tx
       /\ (sc_pc[t] = "write" /\ sc_pc'[t] # "write") =>
             \/ /\ sc_pc'[t] = "wait"
                /\ k_serial = "open"
                /\ Len(tx') = Len(tx) + 1
             \/ /\ sc_pc'[t] = "idle"
                /\ Len(sc_done') = Len(sc_done) + 1
                /\ sc_done'[Len(sc_done')].result = None
                /\ k_serial # "open" => tx' = tx
       /\ sc_pc'[t] \in {"idle", "lock"} => k_lock' # t

=============================================================================
